---- MODULE Spec2Model ----
(***************************************************************************)
(* Protopal event-sourcing runtime (src/src/protopal.ts) as a state        *)
(* machine.                                                                *)
(*                                                                         *)
(* JavaScript runs one job to completion at a time.  A job is either a     *)
(* piece of caller code (UserDispatch), the settlement of a pending        *)
(* context promise (ContextSettles) or the head of the microtask queue     *)
(* (RunMicrotask).  `dispatch` is an async function: it runs synchronously *)
(* up to `await config.resolveContext(command)` and its continuation       *)
(* (decide, evolve, publish) is a microtask queued when the awaited value  *)
(* settles.  Listeners run synchronously inside `emit`.                    *)
(*                                                                         *)
(* Variables marked "history" are not fields of the program; they record   *)
(* what the program did (calls made, values emitted) so that properties    *)
(* about the order of steps inside one job can be stated on states.        *)
(***************************************************************************)
EXTENDS Integers, Sequences, FiniteSets, TLC

VARIABLES
    state,      \* unit name -> value of the unit's state signal
    traceLog,   \* System.traceLog, most recent entry first
    listeners,  \* channel name -> listeners in registration order
    microQ,     \* microtask queue (FIFO) of ready continuations
    waiting,    \* dispatches suspended on a still pending context promise
    promise,    \* promise[d]: status of the promise returned by dispatch call d
    awaited,    \* dispatch calls whose caller awaits the returned promise
    clock,      \* value of Date.now()
    hist,       \* history: the steps of all dispatch calls, in execution order
    recv,       \* history: what the recording listeners received, with the state read
    seen,       \* history: what an awaiting caller read when it resumed
    users,      \* history: number of calls made by caller code so far
    deciders,   \* System.deciders: the names registered with addDecider
    cleanups,   \* System.cleanups: the unsubscribe closures, in push order
    readState,  \* projector name -> value of the projector's state signal
    stored,     \* the persistence adapter's storage: key -> saved item
    manager     \* the PersistenceManager's auto-save of unit A: poller and timers

vars == <<state, traceLog, listeners, microQ, waiting, promise, awaited, clock,
          hist, recv, seen, users, deciders, cleanups, readState, stored, manager>>

-----------------------------------------------------------------------------
(* Bounds *)

MaxUserCmds == 2

MaxEcomCmds == 3

MaxClock == 2

(* Program constants *)

TRACE_LIMIT == 200

-----------------------------------------------------------------------------
(* Helpers *)

Min(a, b) == IF a < b THEN a ELSE b

Max(a, b) == IF a > b THEN a ELSE b

Take(s, n) == SubSeq(s, 1, Min(n, Len(s)))

Last(s) == s[Len(s)]

Ok(v) == [ok |-> TRUE, val |-> v]

Throw == [ok |-> FALSE, val |-> <<>>]

\* F applied to the value of v, with v evaluated exactly once (a JavaScript
\* statement runs once, however often its result is read afterwards).
Strict(v, F(_)) == CHOOSE r \in {F(x) : x \in {v}} : TRUE

NoExc == "none"

GenericUnits == {"A", "B", "C"}

EcommerceUnits == {"Catalog", "Cart", "Order"}

ExampleUnits == {"Counter", "Todo"}

Units == GenericUnits \cup EcommerceUnits \cup ExampleUnits

-----------------------------------------------------------------------------
(* The two generic Decision Units A and B: the free deciders.  Their state *)
(* is the list of the events folded so far, a command carries the tags of  *)
(* the events decide returns for it, and every event records the command   *)
(* it was decided for (k), its place in the batch (idx) and the length of  *)
(* the state decide read (at).                                             *)

GenInitialState == <<>>

GenSafeParse(cmd) == cmd.bad = {}

GenResolveContext(cmd) == cmd.ctx

GenDecide(cmd, st) ==
    IF cmd.decideThrows THEN Throw
    ELSE Ok([i \in 1..Len(cmd.evs) |->
               [type |-> cmd.evs[i], k |-> cmd.k, idx |-> i, at |-> Len(st)]])

\* "Reset" stands for `return initialState`: the object the unit started
\* with.  Every other state is a new array, and no two of them are equal.
GenEvolve(st, ev) ==
    IF ev.type = "Boom" THEN Throw
    ELSE IF ev.type = "Reset" THEN Ok(GenInitialState)
    ELSE Ok(Append(st, ev))

-----------------------------------------------------------------------------
(* The ecommerce example: Cart, Order and Catalog deciders.  A JavaScript  *)
(* Record is a function whose DOMAIN is the set of its keys.  Money is     *)
(* counted in cents.                                                       *)

CartIds == {"cart-1"}

ProductIds == {"p1"}

Quantities == {1}

MOCK_PRICE == 2999

MOCK_STOCK == 10

Failed(kind, cmd, reason) ==
    <<[type |-> kind, payload |-> [command |-> cmd.type, reason |-> reason]]>>

HasItem(cart, productId) ==
    \E i \in 1..Len(cart.items) : cart.items[i].productId = productId

\* Array.prototype.find: the first matching item
FindItem(cart, productId) ==
    cart.items[CHOOSE i \in 1..Len(cart.items) :
                  /\ cart.items[i].productId = productId
                  /\ \A j \in 1..(i - 1) : cart.items[j].productId # productId]

CartInitialState == [carts |-> <<>>]

CartResolveContext(cmd, now) ==
    IF cmd.type = "AddToCart"
    THEN [timestamp |-> now,
          productInfo |-> [id |-> cmd.payload.productId, price |-> MOCK_PRICE,
                           stock |-> MOCK_STOCK, available |-> TRUE]]
    ELSE [timestamp |-> now]

CartDecide(cmd, st, ctx) ==
    LET p == cmd.payload
        fail(reason) == Failed("CartCommandFailed", cmd, reason)
    IN CASE cmd.type = "CreateCart" ->
              IF p.id \in DOMAIN st.carts THEN fail("cart-already-exists")
              ELSE <<[type |-> "CartCreated",
                      payload |-> [id |-> p.id, customerId |-> p.customerId,
                                   createdAt |-> ctx.timestamp]]>>
         [] cmd.type = "AddToCart" ->
              IF p.cartId \notin DOMAIN st.carts THEN fail("cart-not-found")
              ELSE IF ~ctx.productInfo.available THEN fail("product-not-available")
              ELSE IF ctx.productInfo.stock < p.quantity THEN fail("insufficient-stock")
              ELSE LET cart == st.carts[p.cartId] IN
                   IF HasItem(cart, p.productId)
                   THEN LET existingItem == FindItem(cart, p.productId)
                            newQuantity == existingItem.quantity + p.quantity
                        IN IF newQuantity > ctx.productInfo.stock
                           THEN fail("insufficient-stock")
                           ELSE <<[type |-> "CartItemQuantityUpdated",
                                   payload |-> [cartId |-> p.cartId,
                                                productId |-> p.productId,
                                                oldQuantity |-> existingItem.quantity,
                                                newQuantity |-> newQuantity]]>>
                   ELSE <<[type |-> "ItemAddedToCart",
                           payload |-> [cartId |-> p.cartId, productId |-> p.productId,
                                        quantity |-> p.quantity,
                                        priceAtAdd |-> ctx.productInfo.price]]>>
         [] cmd.type = "UpdateCartItemQuantity" ->
              IF p.cartId \notin DOMAIN st.carts THEN fail("cart-not-found")
              ELSE IF ~HasItem(st.carts[p.cartId], p.productId) THEN fail("item-not-in-cart")
              ELSE IF p.quantity = 0
                   THEN <<[type |-> "ItemRemovedFromCart",
                           payload |-> [cartId |-> p.cartId, productId |-> p.productId]]>>
                   ELSE <<[type |-> "CartItemQuantityUpdated",
                           payload |-> [cartId |-> p.cartId, productId |-> p.productId,
                                        oldQuantity |->
                                            FindItem(st.carts[p.cartId], p.productId).quantity,
                                        newQuantity |-> p.quantity]]>>
         [] cmd.type = "RemoveFromCart" ->
              IF p.cartId \notin DOMAIN st.carts THEN fail("cart-not-found")
              ELSE IF ~HasItem(st.carts[p.cartId], p.productId) THEN fail("item-not-in-cart")
              ELSE <<[type |-> "ItemRemovedFromCart",
                      payload |-> [cartId |-> p.cartId, productId |-> p.productId]]>>
         [] cmd.type = "ClearCart" ->
              IF p.cartId \notin DOMAIN st.carts THEN fail("cart-not-found")
              ELSE IF Len(st.carts[p.cartId].items) = 0 THEN fail("cart-already-empty")
              ELSE <<[type |-> "CartCleared", payload |-> [cartId |-> p.cartId]]>>
         [] cmd.type = "CheckoutCart" ->
              IF p.cartId \notin DOMAIN st.carts THEN fail("cart-not-found")
              ELSE IF Len(st.carts[p.cartId].items) = 0 THEN fail("cart-empty")
              ELSE <<[type |-> "CartCheckedOut",
                      payload |-> [cartId |-> p.cartId,
                                   items |-> st.carts[p.cartId].items]]>>
         [] OTHER -> <<>>

\* { ...carts, [id]: cart }
Put(rec, key, val) ==
    [x \in DOMAIN rec \cup {key} |-> IF x = key THEN val ELSE rec[x]]

\* const { [id]: _, ...rest } = carts
Without(rec, key) == [x \in DOMAIN rec \ {key} |-> rec[x]]

MapSeq(s, F(_)) == [i \in 1..Len(s) |-> F(s[i])]

\* evolve leaving the cart in place after checkout.
CartEvolveKeepsCart(st, ev) ==
    IF ev.type = "CartCreated"
    THEN [carts |-> Put(st.carts, ev.payload.id,
                        [id |-> ev.payload.id, customerId |-> ev.payload.customerId,
                         items |-> <<>>, createdAt |-> ev.payload.createdAt])]
    ELSE IF ev.type = "ItemAddedToCart"
    THEN [carts |-> Put(st.carts, ev.payload.cartId,
                        [st.carts[ev.payload.cartId] EXCEPT
                           !.items = Append(@, [productId |-> ev.payload.productId,
                                                quantity |-> ev.payload.quantity,
                                                priceAtAdd |-> ev.payload.priceAtAdd])])]
    ELSE IF ev.type = "CartCleared"
    THEN [carts |-> Put(st.carts, ev.payload.cartId,
                        [st.carts[ev.payload.cartId] EXCEPT !.items = <<>>])]
    ELSE st

\* An evolve that empties the cart on checkout and keeps it.
CartEvolveEmptiesCart(st, ev) ==
    IF ev.type = "CartCheckedOut"
    THEN [carts |-> Put(st.carts, ev.payload.cartId,
                        [st.carts[ev.payload.cartId] EXCEPT !.items = <<>>])]
    ELSE CartEvolveKeepsCart(st, ev)

CartEvolve(st, ev) ==
    LET p == ev.payload
        Items(f) == [carts |-> Put(st.carts, p.cartId,
                                   [st.carts[p.cartId] EXCEPT !.items = f])]
    IN CASE ev.type = "CartCreated" ->
              [carts |-> Put(st.carts, p.id,
                             [id |-> p.id, customerId |-> p.customerId,
                              items |-> <<>>, createdAt |-> p.createdAt])]
         [] ev.type = "ItemAddedToCart" ->
              Items(Append(st.carts[p.cartId].items,
                           [productId |-> p.productId, quantity |-> p.quantity,
                            priceAtAdd |-> p.priceAtAdd]))
         [] ev.type = "CartItemQuantityUpdated" ->
              Items(MapSeq(st.carts[p.cartId].items,
                           LAMBDA item : IF item.productId = p.productId
                                         THEN [item EXCEPT !.quantity = p.newQuantity]
                                         ELSE item))
         [] ev.type = "ItemRemovedFromCart" ->
              Items(SelectSeq(st.carts[p.cartId].items,
                              LAMBDA item : item.productId # p.productId))
         [] ev.type = "CartCleared" -> Items(<<>>)
         [] ev.type = "CartCheckedOut" -> [carts |-> Without(st.carts, p.cartId)]
         [] ev.type = "CartCommandFailed" -> st
         [] OTHER -> st

-----------------------------------------------------------------------------
(* Order decider (CreateOrder) *)

TAX_PERCENT == 8

FREE_SHIPPING_OVER == 5000

SHIPPING == 999

\* Math.round(n / d) for n, d > 0
RoundDiv(n, d) == (2 * n + d) \div (2 * d)

RECURSIVE SumSubtotals(_)
SumSubtotals(items) ==
    IF items = <<>> THEN 0 ELSE items[1].subtotal + SumSubtotals(Tail(items))

calculateTotals(items) ==
    LET subtotal == SumSubtotals(items)
        shipping == IF subtotal > FREE_SHIPPING_OVER THEN 0 ELSE SHIPPING
    IN [subtotal |-> subtotal,
        tax |-> RoundDiv(subtotal * TAX_PERCENT, 100),
        shipping |-> shipping,
        total |-> RoundDiv(subtotal * (100 + TAX_PERCENT) + 100 * shipping, 100)]

OrderInitialState == [orders |-> <<>>]

\* resolveContext draws paymentSuccess with Math.random for ConfirmPayment;
\* the command of the model carries the outcome of that draw.
OrderResolveContext(cmd, now) ==
    IF cmd.type = "ConfirmPayment"
    THEN [timestamp |-> now, paymentSuccess |-> cmd.random]
    ELSE [timestamp |-> now]

\* A decision that ships an order whatever its status.
ShipOrderUnguarded(cmd, st, ctx) ==
    IF cmd.payload.orderId \notin DOMAIN st.orders
    THEN Failed("OrderCommandFailed", cmd, "order-not-found")
    ELSE <<[type |-> "OrderShipped",
            payload |-> [orderId |-> cmd.payload.orderId,
                         trackingNumber |-> cmd.payload.trackingNumber,
                         shippedAt |-> ctx.timestamp]]>>

\* case 'ShipOrder' of decide
ShipOrder(cmd, st, ctx) ==
    IF cmd.payload.orderId \notin DOMAIN st.orders
    THEN Failed("OrderCommandFailed", cmd, "order-not-found")
    ELSE IF st.orders[cmd.payload.orderId].status.kind # "Confirmed"
    THEN Failed("OrderCommandFailed", cmd, "order-not-confirmed")
    ELSE <<[type |-> "OrderShipped",
            payload |-> [orderId |-> cmd.payload.orderId,
                         trackingNumber |-> cmd.payload.trackingNumber,
                         shippedAt |-> ctx.timestamp]]>>

OrderDecide(cmd, st, ctx) ==
    LET p == cmd.payload IN
    CASE cmd.type = "CreateOrder" ->
           IF p.orderId \in DOMAIN st.orders
           THEN Failed("OrderCommandFailed", cmd, "order-already-exists")
           ELSE LET items == MapSeq(p.items,
                                    LAMBDA item :
                                      [productId |-> item.productId,
                                       productName |-> item.productName,
                                       quantity |-> item.quantity,
                                       unitPrice |-> item.unitPrice,
                                       subtotal |-> item.quantity * item.unitPrice])
                IN <<[type |-> "OrderCreated",
                      payload |-> [orderId |-> p.orderId,
                                   customerId |-> p.customerId,
                                   items |-> items,
                                   shippingAddress |-> p.shippingAddress,
                                   billingInfo |-> p.billingInfo,
                                   totals |-> calculateTotals(items),
                                   createdAt |-> ctx.timestamp]]>>
      [] cmd.type = "ProcessPayment" ->
           IF p.orderId \notin DOMAIN st.orders
           THEN Failed("OrderCommandFailed", cmd, "order-not-found")
           ELSE IF st.orders[p.orderId].status.kind # "Pending"
           THEN Failed("OrderCommandFailed", cmd, "invalid-order-status")
           ELSE <<[type |-> "PaymentProcessingStarted",
                   payload |-> [orderId |-> p.orderId, paymentId |-> p.paymentId]]>>
      [] cmd.type = "ConfirmPayment" ->
           IF p.orderId \notin DOMAIN st.orders
           THEN Failed("OrderCommandFailed", cmd, "order-not-found")
           ELSE IF st.orders[p.orderId].status.kind # "PaymentProcessing"
           THEN Failed("OrderCommandFailed", cmd, "not-processing-payment")
           ELSE IF ctx.paymentSuccess
           THEN <<[type |-> "PaymentConfirmed",
                   payload |-> [orderId |-> p.orderId, paymentId |-> p.paymentId,
                                confirmedAt |-> ctx.timestamp]]>>
           ELSE <<[type |-> "PaymentFailed",
                   payload |-> [orderId |-> p.orderId, reason |-> "Payment declined"]]>>
      [] cmd.type = "FailPayment" ->
           IF p.orderId \notin DOMAIN st.orders
           THEN Failed("OrderCommandFailed", cmd, "order-not-found")
           ELSE IF st.orders[p.orderId].status.kind # "PaymentProcessing"
           THEN Failed("OrderCommandFailed", cmd, "not-processing-payment")
           ELSE <<[type |-> "PaymentFailed",
                   payload |-> [orderId |-> p.orderId, reason |-> p.reason]]>>
      [] cmd.type = "ShipOrder" -> ShipOrder(cmd, st, ctx)
      [] cmd.type = "DeliverOrder" ->
           IF p.orderId \notin DOMAIN st.orders
           THEN Failed("OrderCommandFailed", cmd, "order-not-found")
           ELSE IF st.orders[p.orderId].status.kind # "Shipped"
           THEN Failed("OrderCommandFailed", cmd, "order-not-shipped")
           ELSE <<[type |-> "OrderDelivered",
                   payload |-> [orderId |-> p.orderId, deliveredAt |-> ctx.timestamp]]>>
      [] cmd.type = "CancelOrder" ->
           IF p.orderId \notin DOMAIN st.orders
           THEN Failed("OrderCommandFailed", cmd, "order-not-found")
           ELSE IF st.orders[p.orderId].status.kind \notin {"Pending", "PaymentFailed"}
           THEN Failed("OrderCommandFailed", cmd, "cannot-cancel-order")
           ELSE <<[type |-> "OrderCancelled",
                   payload |-> [orderId |-> p.orderId, reason |-> p.reason,
                                cancelledAt |-> ctx.timestamp]]>>
      [] cmd.type = "RefundOrder" ->
           IF p.orderId \notin DOMAIN st.orders
           THEN Failed("OrderCommandFailed", cmd, "order-not-found")
           ELSE IF st.orders[p.orderId].status.kind \notin {"Confirmed", "Shipped", "Delivered"}
           THEN Failed("OrderCommandFailed", cmd, "cannot-refund-order")
           ELSE <<[type |-> "OrderRefunded",
                   payload |-> [orderId |-> p.orderId, amount |-> p.amount,
                                refundedAt |-> ctx.timestamp]]>>
      [] OTHER -> <<>>

\* evolve reads the clock for PaymentProcessingStarted and PaymentFailed:
\* updatedAt: new Date().toISOString()
OrderEvolve(st, ev, now) ==
    LET p == ev.payload
        With(status, at) ==
            [orders |-> Put(st.orders, p.orderId,
                            [st.orders[p.orderId] EXCEPT !.status = status,
                                                         !.updatedAt = at])]
    IN
    CASE ev.type = "OrderCreated" ->
           [orders |-> Put(st.orders, p.orderId,
                           [id |-> p.orderId, customerId |-> p.customerId,
                            items |-> p.items,
                            shippingAddress |-> p.shippingAddress,
                            billing |-> p.billingInfo,
                            status |-> [kind |-> "Pending"],
                            totals |-> p.totals,
                            createdAt |-> p.createdAt,
                            updatedAt |-> p.createdAt])]
      [] ev.type = "PaymentProcessingStarted" ->
           [orders |-> Put(st.orders, p.orderId,
                           [st.orders[p.orderId] EXCEPT
                              !.status = [kind |-> "PaymentProcessing"],
                              !.updatedAt = now])]
      [] ev.type = "PaymentConfirmed" ->
           With([kind |-> "Confirmed", confirmedAt |-> p.confirmedAt], p.confirmedAt)
      [] ev.type = "PaymentFailed" ->
           With([kind |-> "PaymentFailed", reason |-> p.reason], now)
      [] ev.type = "OrderShipped" ->
           With([kind |-> "Shipped", shippedAt |-> p.shippedAt,
                 trackingNumber |-> p.trackingNumber], p.shippedAt)
      [] ev.type = "OrderDelivered" ->
           With([kind |-> "Delivered", deliveredAt |-> p.deliveredAt], p.deliveredAt)
      [] ev.type = "OrderCancelled" ->
           With([kind |-> "Cancelled", cancelledAt |-> p.cancelledAt,
                 reason |-> p.reason], p.cancelledAt)
      [] ev.type = "OrderRefunded" ->
           With([kind |-> "Refunded", refundedAt |-> p.refundedAt,
                 amount |-> p.amount], p.refundedAt)
      [] ev.type = "OrderCommandFailed" -> st
      [] OTHER -> st

-----------------------------------------------------------------------------
(* Catalog decider *)

CatalogInitialState == [products |-> <<>>]

CatalogResolveContext(cmd, now) == [timestamp |-> now]

CatalogDecide(cmd, st, ctx) ==
    LET p == cmd.payload IN
    CASE cmd.type = "AddProduct" ->
           IF p.id \in DOMAIN st.products
           THEN Failed("CatalogCommandFailed", cmd, "product-already-exists")
           ELSE <<[type |-> "ProductAdded", payload |-> p]>>
      [] cmd.type = "UpdateProductPrice" ->
           IF p.id \notin DOMAIN st.products
           THEN Failed("CatalogCommandFailed", cmd, "product-not-found")
           ELSE IF st.products[p.id].status.kind = "Discontinued"
           THEN Failed("CatalogCommandFailed", cmd, "product-discontinued")
           ELSE <<[type |-> "ProductPriceUpdated",
                   payload |-> [id |-> p.id, oldPrice |-> st.products[p.id].price,
                                newPrice |-> p.price]]>>
      [] cmd.type = "UpdateProductStock" ->
           IF p.id \notin DOMAIN st.products
           THEN Failed("CatalogCommandFailed", cmd, "product-not-found")
           ELSE LET product == st.products[p.id]
                    updated == <<[type |-> "ProductStockUpdated",
                                  payload |-> [id |-> p.id, oldStock |-> product.stock,
                                               newStock |-> p.stock]]>>
                IN IF product.stock = 0 /\ p.stock > 0
                   THEN Append(updated, [type |-> "ProductBackInStock",
                                         payload |-> [id |-> p.id, stock |-> p.stock]])
                   ELSE IF product.stock > 0 /\ p.stock = 0
                   THEN Append(updated, [type |-> "ProductOutOfStock",
                                         payload |-> [id |-> p.id]])
                   ELSE updated
      [] cmd.type = "DiscontinueProduct" ->
           IF p.id \notin DOMAIN st.products
           THEN Failed("CatalogCommandFailed", cmd, "product-not-found")
           ELSE IF st.products[p.id].status.kind = "Discontinued"
           THEN Failed("CatalogCommandFailed", cmd, "already-discontinued")
           ELSE <<[type |-> "ProductDiscontinued", payload |-> [id |-> p.id]]>>
      [] cmd.type = "ReactivateProduct" ->
           IF p.id \notin DOMAIN st.products
           THEN Failed("CatalogCommandFailed", cmd, "product-not-found")
           ELSE IF st.products[p.id].status.kind # "Discontinued"
           THEN Failed("CatalogCommandFailed", cmd, "not-discontinued")
           ELSE <<[type |-> "ProductReactivated", payload |-> [id |-> p.id]]>>
      [] cmd.type = "AdjustStock" ->
           IF p.id \notin DOMAIN st.products
           THEN Failed("CatalogCommandFailed", cmd, "product-not-found")
           ELSE LET product == st.products[p.id]
                    newStock == Max(0, product.stock + p.adjustment)
                    updated == <<[type |-> "ProductStockUpdated",
                                  payload |-> [id |-> p.id, oldStock |-> product.stock,
                                               newStock |-> newStock]]>>
                IN IF product.stock = 0 /\ newStock > 0
                   THEN Append(updated, [type |-> "ProductBackInStock",
                                         payload |-> [id |-> p.id, stock |-> newStock]])
                   ELSE IF product.stock > 0 /\ newStock = 0
                   THEN Append(updated, [type |-> "ProductOutOfStock",
                                         payload |-> [id |-> p.id]])
                   ELSE updated
      [] OTHER -> <<>>

CatalogEvolve(st, ev) ==
    LET p == ev.payload
        Status(kind) == [products |-> Put(st.products, p.id,
                            [st.products[p.id] EXCEPT !.status = [kind |-> kind]])]
    IN CASE ev.type = "ProductAdded" ->
              [products |-> Put(st.products, p.id,
                  [id |-> p.id, price |-> p.price, stock |-> p.stock,
                   status |-> [kind |-> IF p.stock > 0 THEN "Active" ELSE "OutOfStock"]])]
         [] ev.type = "ProductStockUpdated" ->
              [products |-> Put(st.products, p.id,
                  [st.products[p.id] EXCEPT
                     !.stock = p.newStock,
                     !.status = IF p.newStock = 0 THEN [kind |-> "OutOfStock"]
                                ELSE IF @.kind = "OutOfStock" THEN [kind |-> "Active"]
                                ELSE @])]
         [] ev.type = "ProductPriceUpdated" ->
              [products |-> Put(st.products, p.id,
                  [st.products[p.id] EXCEPT !.price = p.newPrice])]
         [] ev.type = "ProductOutOfStock" -> Status("OutOfStock")
         [] ev.type = "ProductBackInStock" -> Status("Active")
         [] ev.type = "ProductDiscontinued" -> Status("Discontinued")
         [] ev.type = "ProductReactivated" ->
              Status(IF st.products[p.id].stock > 0 THEN "Active" ELSE "OutOfStock")
         [] ev.type = "CatalogCommandFailed" -> st
         [] OTHER -> st

-----------------------------------------------------------------------------
(* The counter example (examples/counter/src/system.ts).  A command or an  *)
(* event without payload is a record with the type only.                   *)

HISTORY_LIMIT == 20

\* Array.prototype.slice(-n)
LastN(s, n) == SubSeq(s, Max(1, Len(s) - n + 1), Len(s))

\* crypto.randomUUID() and new Date() are read once, when the module loads.
CounterInitialState ==
    [id |-> "uuid", value |-> 0, mode |-> [kind |-> "Counting", startedAt |-> 0],
     clicks |-> 0, history |-> <<>>, createdAt |-> 0]

\* counterCommandSchema.safeParse(cmd).success
CounterSafeParse(cmd) ==
    CASE cmd.type \in {"Increment", "Decrement"} ->
           cmd.payload.amount >= 1 /\ cmd.payload.amount <= 100
      [] cmd.type = "SetCountdownTarget" ->
           cmd.payload.target >= 1 /\ cmd.payload.target <= 1000
      [] cmd.type = "ChangeMode" -> cmd.payload.mode \in {"counting", "countdown"}
      [] cmd.type \in {"Reset", "Pause", "Resume"} -> TRUE
      [] OTHER -> FALSE

CounterResolveContext(cmd, now) == [timestamp |-> now]

\* decide without the guard of Decrement.
CounterDecideNoGuard(cmd, st, ctx) ==
    IF cmd.type = "Decrement"
    THEN <<[type |-> "Decremented",
            payload |-> [amount |-> cmd.payload.amount,
                         newValue |-> st.value - cmd.payload.amount,
                         timestamp |-> ctx.timestamp]]>>
    ELSE IF cmd.type = "Increment"
    THEN <<[type |-> "Incremented",
            payload |-> [amount |-> cmd.payload.amount,
                         newValue |-> st.value + cmd.payload.amount,
                         timestamp |-> ctx.timestamp]]>>
    ELSE <<>>

CounterDecide(cmd, st, ctx) ==
    LET fail(reason) == Failed("CounterCommandFailed", cmd, reason)
    IN CASE cmd.type = "Increment" ->
              LET newValue == st.value + cmd.payload.amount
                  events == <<[type |-> "Incremented",
                               payload |-> [amount |-> cmd.payload.amount,
                                            newValue |-> newValue,
                                            timestamp |-> ctx.timestamp]]>>
              IN IF st.mode.kind = "Countdown" /\ newValue >= st.mode.targetValue
                 THEN Append(events, [type |-> "TargetReached",
                                      payload |-> [value |-> newValue,
                                                   timestamp |-> ctx.timestamp]])
                 ELSE events
         [] cmd.type = "Decrement" ->
              IF st.value - cmd.payload.amount < 0 THEN fail("Cannot go below zero")
              ELSE <<[type |-> "Decremented",
                      payload |-> [amount |-> cmd.payload.amount,
                                   newValue |-> st.value - cmd.payload.amount,
                                   timestamp |-> ctx.timestamp]]>>
         [] cmd.type = "Reset" ->
              <<[type |-> "Reset",
                 payload |-> [previousValue |-> st.value, timestamp |-> ctx.timestamp]]>>
         [] cmd.type = "SetCountdownTarget" ->
              IF st.mode.kind # "Countdown" THEN fail("Not in countdown mode")
              ELSE IF cmd.payload.target <= 0 THEN fail("Target must be positive")
              ELSE <<[type |-> "CountdownTargetSet",
                      payload |-> [target |-> cmd.payload.target,
                                   timestamp |-> ctx.timestamp]]>>
         [] cmd.type = "ChangeMode" ->
              IF st.mode.kind = "Paused" THEN <<>>
              ELSE IF \/ st.mode.kind = "Counting" /\ cmd.payload.mode = "counting"
                      \/ st.mode.kind = "Countdown" /\ cmd.payload.mode = "countdown"
              THEN <<>>
              ELSE <<[type |-> "ModeChanged",
                      payload |-> [from |-> st.mode.kind, to |-> cmd.payload.mode,
                                   timestamp |-> ctx.timestamp]]>>
         [] cmd.type = "Pause" ->
              IF st.mode.kind = "Paused" THEN <<>>
              ELSE <<[type |-> "Paused",
                      payload |-> [mode |-> st.mode.kind, timestamp |-> ctx.timestamp]]>>
         [] cmd.type = "Resume" ->
              IF st.mode.kind # "Paused" THEN fail("Not paused")
              ELSE <<[type |-> "Resumed", payload |-> [timestamp |-> ctx.timestamp]]>>
         [] OTHER -> <<>>

\* evolve that counts the click but keeps the value.
CounterEvolveKeepsValue(st, ev) ==
    IF ev.type \in {"Incremented", "Decremented", "Reset"}
    THEN [st EXCEPT !.clicks = @ + 1]
    ELSE st

CounterEvolve(st, ev) ==
    LET p == ev.payload
        addHistory(entry) == LastN(Append(st.history, entry), HISTORY_LIMIT)
    IN CASE ev.type = "Incremented" ->
              [st EXCEPT !.value = p.newValue, !.clicks = @ + 1,
                         !.history = addHistory([kind |-> "Incremented",
                                                 amount |-> p.amount,
                                                 newValue |-> p.newValue,
                                                 timestamp |-> p.timestamp])]
         [] ev.type = "Decremented" ->
              [st EXCEPT !.value = p.newValue, !.clicks = @ + 1,
                         !.history = addHistory([kind |-> "Decremented",
                                                 amount |-> p.amount,
                                                 newValue |-> p.newValue,
                                                 timestamp |-> p.timestamp])]
         [] ev.type = "Reset" ->
              [st EXCEPT !.value = 0, !.clicks = @ + 1,
                         !.history = addHistory([kind |-> "Reset",
                                                 previousValue |-> p.previousValue,
                                                 timestamp |-> p.timestamp])]
         [] ev.type = "CountdownTargetSet" ->
              IF st.mode.kind = "Countdown"
              THEN [st EXCEPT !.mode = Put(st.mode, "targetValue", p.target)]
              ELSE st
         [] ev.type = "ModeChanged" ->
              [st EXCEPT !.mode = IF p.to = "counting"
                                  THEN [kind |-> "Counting", startedAt |-> p.timestamp]
                                  ELSE [kind |-> "Countdown", targetValue |-> 10],
                         !.history = addHistory([kind |-> "ModeChanged", from |-> p.from,
                                                 to |-> IF p.to = "counting" THEN "Counting"
                                                        ELSE "Countdown",
                                                 timestamp |-> p.timestamp])]
         [] ev.type = "Paused" ->
              [st EXCEPT !.mode = [kind |-> "Paused", pausedAt |-> p.timestamp,
                                   previousMode |-> p.mode]]
         [] ev.type = "Resumed" ->
              IF st.mode.kind = "Paused"
              THEN [st EXCEPT !.mode = IF st.mode.previousMode = "Counting"
                                       THEN [kind |-> "Counting", startedAt |-> p.timestamp]
                                       ELSE [kind |-> "Countdown", targetValue |-> 10]]
              ELSE st
         [] ev.type = "TargetReached" ->
              IF st.mode.kind = "Countdown"
              THEN [st EXCEPT !.mode = Put(st.mode, "targetReachedAt", p.timestamp),
                              !.history = addHistory([kind |-> "TargetReached",
                                                      value |-> p.value,
                                                      timestamp |-> p.timestamp])]
              ELSE st
         [] ev.type = "CounterCommandFailed" -> st
         [] OTHER -> st

-----------------------------------------------------------------------------
(* The todo example (examples/todo/src/system.ts) *)

TodoInitialState == [todos |-> <<>>]

\* todoCommandSchema.safeParse(cmd).success; a text is modelled by its length
TodoSafeParse(cmd) ==
    CASE cmd.type \in {"AddTodo", "UpdateTodoText"} ->
           cmd.payload.id # "" /\ cmd.payload.text >= 1 /\ cmd.payload.text <= 500
      [] cmd.type \in {"CompleteTodo", "ReactivateTodo", "ArchiveTodo"} ->
           cmd.payload.id # ""
      [] OTHER -> FALSE

TodoResolveContext(cmd, now) == [timestamp |-> now]

\* A decision that edits the text of a todo whatever its status.
UpdateTodoTextUnguarded(cmd, st, ctx) ==
    IF cmd.payload.id \notin DOMAIN st.todos
    THEN Failed("TodoCommandFailed", cmd, "Todo not found")
    ELSE <<[type |-> "TodoTextUpdated",
            payload |-> [id |-> cmd.payload.id, text |-> cmd.payload.text,
                         updatedAt |-> ctx.timestamp]]>>

\* case 'UpdateTodoText' of decide
UpdateTodoText(cmd, st, ctx) ==
    IF cmd.payload.id \notin DOMAIN st.todos
    THEN Failed("TodoCommandFailed", cmd, "Todo not found")
    ELSE IF st.todos[cmd.payload.id].status.kind = "Archived"
    THEN Failed("TodoCommandFailed", cmd, "Cannot edit archived todo")
    ELSE <<[type |-> "TodoTextUpdated",
            payload |-> [id |-> cmd.payload.id, text |-> cmd.payload.text,
                         updatedAt |-> ctx.timestamp]]>>

TodoDecide(cmd, st, ctx) ==
    LET p == cmd.payload
        fail(reason) == Failed("TodoCommandFailed", cmd, reason)
        found == p.id \in DOMAIN st.todos
    IN CASE cmd.type = "AddTodo" ->
              IF found THEN fail("Todo already exists")
              ELSE <<[type |-> "TodoAdded",
                      payload |-> [id |-> p.id, text |-> p.text,
                                   createdAt |-> ctx.timestamp]]>>
         [] cmd.type = "CompleteTodo" ->
              IF ~found THEN fail("Todo not found")
              ELSE IF st.todos[p.id].status.kind # "Active" THEN fail("Todo is not active")
              ELSE <<[type |-> "TodoCompleted",
                      payload |-> [id |-> p.id, completedAt |-> ctx.timestamp]]>>
         [] cmd.type = "ReactivateTodo" ->
              IF ~found THEN fail("Todo not found")
              ELSE IF st.todos[p.id].status.kind # "Completed"
              THEN fail("Todo is not completed")
              ELSE <<[type |-> "TodoReactivated",
                      payload |-> [id |-> p.id, reactivatedAt |-> ctx.timestamp]]>>
         [] cmd.type = "ArchiveTodo" ->
              IF ~found THEN fail("Todo not found")
              ELSE IF st.todos[p.id].status.kind = "Archived"
              THEN fail("Todo already archived")
              ELSE <<[type |-> "TodoArchived",
                      payload |-> [id |-> p.id, archivedAt |-> ctx.timestamp]]>>
         [] cmd.type = "UpdateTodoText" -> UpdateTodoText(cmd, st, ctx)
         [] OTHER -> <<>>

\* evolve that forgets the todos when a command was rejected.
TodoEvolveClearsOnFailure(st, ev) ==
    IF ev.type = "TodoCommandFailed" THEN [todos |-> <<>>]
    ELSE IF ev.type = "TodoAdded"
    THEN [todos |-> Put(st.todos, ev.payload.id,
                        [id |-> ev.payload.id, text |-> ev.payload.text,
                         status |-> [kind |-> "Active",
                                     createdAt |-> ev.payload.createdAt]])]
    ELSE IF ev.type = "TodoCompleted"
    THEN [todos |-> Put(st.todos, ev.payload.id,
                        [st.todos[ev.payload.id] EXCEPT
                           !.status = [kind |-> "Completed",
                                       completedAt |-> ev.payload.completedAt]])]
    ELSE st

TodoEvolve(st, ev) ==
    LET p == ev.payload
        Status(status) == [todos |-> Put(st.todos, p.id,
                                         [st.todos[p.id] EXCEPT !.status = status])]
    IN CASE ev.type = "TodoAdded" ->
              [todos |-> Put(st.todos, p.id,
                             [id |-> p.id, text |-> p.text,
                              status |-> [kind |-> "Active", createdAt |-> p.createdAt]])]
         [] ev.type = "TodoCompleted" ->
              Status([kind |-> "Completed", completedAt |-> p.completedAt])
         [] ev.type = "TodoReactivated" ->
              Status([kind |-> "Active", createdAt |-> p.reactivatedAt])
         [] ev.type = "TodoArchived" ->
              Status([kind |-> "Archived", archivedAt |-> p.archivedAt])
         [] ev.type = "TodoTextUpdated" ->
              [todos |-> Put(st.todos, p.id, [st.todos[p.id] EXCEPT !.text = p.text])]
         [] ev.type = "TodoCommandFailed" -> st
         [] OTHER -> st

-----------------------------------------------------------------------------
(* Reaction Units of the ecommerce example *)

\* process-managers/checkout.ts
checkoutFilter(event) == event.type = "CartCheckedOut"

checkoutReact(event, now) ==
    IF event.type # "CartCheckedOut" THEN <<>>
    ELSE <<[type |-> "CreateOrder",
            payload |-> [orderId |-> <<"order", now>>,
                         customerId |-> "customer-123",
                         items |-> MapSeq(event.payload.items,
                                          LAMBDA item :
                                            [productId |-> item.productId,
                                             productName |-> <<"Product", item.productId>>,
                                             quantity |-> item.quantity,
                                             unitPrice |-> item.priceAtAdd]),
                         shippingAddress |-> "123 Main St",
                         billingInfo |-> "Visa 4242"]]>>

\* process-managers/inventory.ts
inventoryFilter(event) ==
    event.type \in {"OrderCreated", "OrderCancelled", "OrderRefunded"}

inventoryReact(event) ==
    IF event.type = "OrderCreated"
    THEN MapSeq(event.payload.items,
                LAMBDA item :
                  [type |-> "AdjustStock",
                   payload |-> [id |-> item.productId,
                                adjustment |-> 0 - item.quantity,
                                reason |-> event.payload.orderId]])
    ELSE <<>>

-----------------------------------------------------------------------------
(* DeciderConfig of every unit *)

initialState(u) ==
    CASE u \in GenericUnits -> GenInitialState
      [] u = "Cart" -> CartInitialState
      [] u = "Order" -> OrderInitialState
      [] u = "Catalog" -> CatalogInitialState
      [] u = "Counter" -> CounterInitialState
      [] u = "Todo" -> TodoInitialState

\* No unit has a schema.
HasSchemaNever(u) == FALSE

\* config.commandSchema is set
HasSchema(u) == u \in GenericUnits \cup ExampleUnits

\* config.commandSchema.safeParse(command).success
SafeParse(u, cmd) ==
    CASE u = "Counter" -> CounterSafeParse(cmd)
      [] u = "Todo" -> TodoSafeParse(cmd)
      [] OTHER -> GenSafeParse(cmd)

\* What config.resolveContext(command) does: "throw" (it throws), "sync" (a
\* value or an already fulfilled promise), "reject" (an already rejected
\* promise), "async" (a promise still pending when dispatch awaits it),
\* "never" (a promise that stays pending for ever).
\* The resolvers of the ecommerce units are async functions without await.
ContextMode(u, cmd) == IF u \in GenericUnits THEN GenResolveContext(cmd) ELSE "sync"

resolveContext(u, cmd, now) ==
    CASE u \in GenericUnits -> [timestamp |-> now]
      [] u = "Cart" -> CartResolveContext(cmd, now)
      [] u = "Order" -> OrderResolveContext(cmd, now)
      [] u = "Catalog" -> CatalogResolveContext(cmd, now)
      [] u = "Counter" -> CounterResolveContext(cmd, now)
      [] u = "Todo" -> TodoResolveContext(cmd, now)

decide(u, cmd, st, ctx) ==
    CASE u \in GenericUnits -> GenDecide(cmd, st)
      [] u = "Cart" -> Ok(CartDecide(cmd, st, ctx))
      [] u = "Order" -> Ok(OrderDecide(cmd, st, ctx))
      [] u = "Catalog" -> Ok(CatalogDecide(cmd, st, ctx))
      [] u = "Counter" -> Ok(CounterDecide(cmd, st, ctx))
      [] u = "Todo" -> Ok(TodoDecide(cmd, st, ctx))

\* config.evolve(before, event), called while Date.now() is now
evolve(u, st, ev, now) ==
    CASE u \in GenericUnits -> GenEvolve(st, ev)
      [] u = "Cart" -> Ok(CartEvolve(st, ev))
      [] u = "Order" -> Ok(OrderEvolve(st, ev, now))
      [] u = "Catalog" -> Ok(CatalogEvolve(st, ev))
      [] u = "Counter" -> Ok(CounterEvolve(st, ev))
      [] u = "Todo" -> Ok(TodoEvolve(st, ev))

-----------------------------------------------------------------------------
(* Reaction Units and listeners of the generic system *)

\* Commands the generic Reaction Unit A -> B returns for a "Trig" event:
\* two commands, so that their order shows.
GenReactCmd(event, j) ==
    [type |-> "Op", k |-> 10 * event.k + j, evs |-> <<"E1">>, bad |-> {},
     ctx |-> "sync", decideThrows |-> FALSE]

\* The command the Reaction Units "Ping" (A -> B) and "Pong" (B -> A) return
\* for a "Trig" event: its decide returns a "Trig" event again; k counts the
\* reactions that led to it.
CycleReactCmd(event) ==
    [type |-> "Op", k |-> event.k + 1, evs |-> <<"Trig">>, bad |-> {},
     ctx |-> "sync", decideThrows |-> FALSE]

\* config.filter(event) throws.  The Reaction Unit "Reactor" of the system
\* with projectors throws in its filter on "FBad" and in react on "RBad".
filterThrows(name, event) == name = "Reactor" /\ event.type = "FBad"

filter(name, event) ==
    CASE name = "CheckoutProcessManager" -> checkoutFilter(event)
      [] name = "InventoryProcessManager" -> inventoryFilter(event)
      [] name = "AtoB" -> event.type = "Trig"
      [] name = "Reactor" -> event.type \in {"Trig", "RBad", "PBad"}
      [] name \in {"Ping", "Pong"} -> event.type = "Trig"
      [] name = "Loop" -> event.type = "Trig"

react(name, event, now) ==
    CASE name = "CheckoutProcessManager" -> Ok(checkoutReact(event, now))
      [] name = "InventoryProcessManager" -> Ok(inventoryReact(event))
      [] name = "AtoB" -> Ok(<<GenReactCmd(event, 1), GenReactCmd(event, 2)>>)
      [] name = "Reactor" -> IF event.type = "RBad" THEN Throw
                             ELSE Ok(<<GenReactCmd(event, 1)>>)
      [] name \in {"Ping", "Pong"} -> Ok(<<CycleReactCmd(event)>>)
      [] name = "Loop" -> Ok(<<GenReactCmd(event, 3)>>)

\* The generic Read Model Builders: the read-state is the list of the values
\* projected so far.  "PA" and "PA2" read a unit's channel, "PG" reads the
\* envelopes of the global channel; "PA" and "PG" throw on a "PBad" event.
\* "IncCount" counts the Incremented events of the counter unit.
Projectors == {"PA", "PA2", "PG", "IncCount"}

ProjectorInitialState(name) == IF name = "IncCount" THEN 0 ELSE <<>>

project(name, rs, value) ==
    LET event == IF name = "PG" THEN value.event ELSE value
    IN IF name = "IncCount"
       THEN Ok(IF event.type = "Incremented" THEN rs + 1 ELSE rs)
       ELSE IF name \in {"PA", "PG"} /\ event.type = "PBad" THEN Throw
       ELSE Ok(Append(rs, value))

\* The command a listener of A's channel dispatches back to A when it
\* receives a "Re" event (it fails the schema) or a "Rv" event (it passes).
RedispatchCmd(event) ==
    [type |-> "Op", k |-> 10 * event.k + 3, evs |-> <<"E1">>,
     bad |-> IF event.type = "Re" THEN {"payload"} ELSE {},
     ctx |-> "sync", decideThrows |-> FALSE]

Listener(kind, unit, name, target) ==
    [kind |-> kind, unit |-> unit, name |-> name, target |-> target]

-----------------------------------------------------------------------------
(* The runtime.  The operators below take the whole program state as the   *)
(* record w and return it as the called code leaves it.  w.exc is the      *)
(* exception that is propagating out of the called code, NoExc if none.    *)

World ==
    [state |-> state, traceLog |-> traceLog, listeners |-> listeners,
     microQ |-> microQ, waiting |-> waiting, promise |-> promise,
     awaited |-> awaited, clock |-> clock, hist |-> hist, recv |-> recv,
     seen |-> seen, users |-> users, deciders |-> deciders,
     cleanups |-> cleanups, readState |-> readState, stored |-> stored,
     exc |-> NoExc]

\* One step of dispatch call did on unit u (history): op is "dispatch" (the
\* call, val the command), "resolveContext", "decide", "evolve" (the call
\* of that function; i the place of the event in the batch), "publish"
\* (events.emit or, for unit "all", allEvents.emit; val the value), "settled"
\* (the pending context promise settles) or "return" (the call completes).
Step(op, u, did, i, val) == [op |-> op, unit |-> u, did |-> did, i |-> i, val |-> val]

Log(w, step) == [w EXCEPT !.hist = Append(@, step)]

None == [type |-> "none"]

Job(kind, did, u, cmd, ctx, ok) ==
    [kind |-> kind, did |-> did, unit |-> u, cmd |-> cmd, ctx |-> ctx, ok |-> ok]

CallerJob(did) == Job("caller", did, "", None, [timestamp |-> 0], TRUE)

\* EventBus.listeners is a Set: it keeps insertion order, add of a member is
\* a no-op, and forEach visits the entries live: an entry deleted before its
\* turn is not visited, an entry added during the iteration is.  The list
\* keeps a deleted entry's place as Removed, so that places do not shift
\* under a running forEach.
Removed == Listener("removed", "", "", "")

\* this.listeners.add(listener)
Subscribe(w, ch, l) ==
    IF \E i \in DOMAIN w.listeners[ch] : w.listeners[ch][i] = l THEN w
    ELSE [w EXCEPT !.listeners[ch] = Append(@, l)]

\* An unsubscribe closure that deletes nothing.
UnsubscribeKeeps(w, ch, l) == w

\* The closure subscribe returns: this.listeners.delete(listener)
Unsubscribe(w, ch, l) ==
    [w EXCEPT !.listeners[ch] =
        [i \in DOMAIN w.listeners[ch] |->
            IF w.listeners[ch][i] = l THEN Removed ELSE w.listeners[ch][i]]]

RECURSIVE EmitFrom(_, _, _, _)
RECURSIVE Invoke(_, _, _)
RECURSIVE dispatch(_, _, _)
RECURSIVE DispatchEach(_, _, _, _)
RECURSIVE Forwarder(_, _, _)
RECURSIVE BusEmit(_, _, _)
RECURSIVE BusListener(_, _, _)
RECURSIVE FilterListener(_, _, _)
RECURSIVE ForwarderUntagged(_, _, _)

\* EventBus.emit: this.listeners.forEach((l) => l(value)); a listener that
\* throws ends the iteration, the exception leaves emit.
emit(w, ch, value) == EmitFrom(w, ch, value, 1)

EmitFrom(w, ch, value, i) ==
    Strict(w, LAMBDA x :
    IF i > Len(x.listeners[ch]) THEN x
    ELSE Strict(Invoke(x, x.listeners[ch][i], value), LAMBDA w1 :
            IF w1.exc # NoExc THEN w1 ELSE EmitFrom(w1, ch, value, i + 1)))

\* trace?.emit(entry)
TraceEmit(w, entry) == emit(w, "trace", entry)

\* A catch block that records nothing.
CatchSilent(w, did) == [w EXCEPT !.exc = NoExc]

\* A try block that ends before the events are published: what a listener
\* throws leaves dispatch.
CatchBeforePublish(w, did) ==
    IF w.exc \in {NoExc, "listener"} THEN w
    ELSE TraceEmit([w EXCEPT !.exc = NoExc],
                   [kind |-> "error", phase |-> "decide", error |-> w.exc, did |-> did])

\* The catch block of dispatch.  The entry carries the number of the
\* dispatch call (history) next to the phase and the error.
Catch(w, did) ==
    IF w.exc = NoExc THEN w
    ELSE TraceEmit([w EXCEPT !.exc = NoExc],
                   [kind |-> "error", phase |-> "decide", error |-> w.exc, did |-> did])

\* The async function dispatch returns: its promise is fulfilled, or
\* rejected with the exception that left its body; a caller awaiting the
\* promise is queued as a microtask.
AsyncReturn(w, u, did) ==
    LET status == IF w.exc = NoExc THEN "fulfilled" ELSE "rejected"
        w1 == Log([w EXCEPT !.promise[did] = status, !.exc = NoExc],
                  Step("return", u, did, 0, [status |-> status]))
    IN IF did \in w.awaited
       THEN [w1 EXCEPT !.microQ = Append(@, CallerJob(did)), !.awaited = @ \ {did}]
       ELSE w1

ValidationEvent(cmd) ==
    [type |-> "CommandValidationFailed",
     payload |-> [command |-> IF "type" \in DOMAIN cmd THEN cmd.type ELSE "unknown",
                  errors |-> IF "bad" \in DOMAIN cmd THEN cmd.bad ELSE {"payload"}]]

\* A collector that never evicts.
CollectorUnbounded(log, entry) == <<entry>> \o log

\* The System's trace collector: [entry, ...log].slice(0, 200)
Collector(log, entry) == Take(<<entry>> \o log, TRACE_LIMIT)

\* A projector listener without the try block.
ProjectorListenerNoCatch(w, l, event) ==
    LET r == project(l.name, w.readState[l.name], event)
    IN IF r.ok
       THEN TraceEmit([w EXCEPT !.readState[l.name] = r.val],
                      [kind |-> "projection", projector |-> l.name, event |-> event])
       ELSE [w EXCEPT !.exc = "project"]

\* createProjector's listener.  The error entry carries the event (history).
ProjectorListener(w, l, event) ==
    LET r == project(l.name, w.readState[l.name], event)
    IN IF r.ok
       THEN TraceEmit([w EXCEPT !.readState[l.name] = r.val],
                      [kind |-> "projection", projector |-> l.name, event |-> event])
       ELSE TraceEmit(w, [kind |-> "error", phase |-> "project", error |-> "project",
                          did |-> 0, event |-> event])

\* A listener that stops reacting to events three reactions deep.
ProcessManagerListenerDepthLimited(w, l, event) ==
    IF filterThrows(l.name, event) THEN [w EXCEPT !.exc = "filter"]
    ELSE IF ~filter(l.name, event) THEN w
    ELSE IF "k" \in DOMAIN event /\ event.k >= 3 THEN w
    ELSE LET r == react(l.name, event, w.clock)
         IN IF ~r.ok
            THEN TraceEmit(w, [kind |-> "error", phase |-> "process-manager",
                               error |-> "react", did |-> 0, event |-> event])
            ELSE DispatchEach(
                   TraceEmit(w, [kind |-> "process-manager", manager |-> l.name,
                                 trigger |-> event, commands |-> r.val]),
                   l.target, r.val, 1)

\* A listener that dispatches the commands to unit C, whatever its target.
ProcessManagerListenerWrongTarget(w, l, event) ==
    IF filterThrows(l.name, event) THEN [w EXCEPT !.exc = "filter"]
    ELSE IF ~filter(l.name, event) THEN w
    ELSE LET r == react(l.name, event, w.clock)
         IN IF ~r.ok
            THEN TraceEmit(w, [kind |-> "error", phase |-> "process-manager",
                               error |-> "react", did |-> 0, event |-> event])
            ELSE DispatchEach(
                   TraceEmit(w, [kind |-> "process-manager", manager |-> l.name,
                                 trigger |-> event, commands |-> r.val]),
                   "C", r.val, 1)

\* createProcessManager's listener: the filter is called outside the try
\* block, react and the dispatches inside it.
ProcessManagerListener(w, l, event) ==
    IF filterThrows(l.name, event) THEN [w EXCEPT !.exc = "filter"]
    ELSE IF ~filter(l.name, event) THEN w
    ELSE LET r == react(l.name, event, w.clock)
         IN IF ~r.ok
            THEN TraceEmit(w, [kind |-> "error", phase |-> "process-manager",
                               error |-> "react", did |-> 0, event |-> event])
            ELSE DispatchEach(
                   TraceEmit(w, [kind |-> "process-manager", manager |-> l.name,
                                 trigger |-> event, commands |-> r.val]),
                   l.target, r.val, 1)

\* The commands dispatched last to first.
RECURSIVE DispatchEachReversed(_, _, _, _)
DispatchEachReversed(w, target, commands, i) ==
    IF i > Len(commands) THEN w
    ELSE DispatchEachReversed(dispatch(w, target, commands[Len(commands) + 1 - i]),
                              target, commands, i + 1)

\* for (const command of commands) targetDispatch(command)
DispatchEach(w, target, commands, i) ==
    IF i > Len(commands) THEN w
    ELSE DispatchEach(dispatch(w, target, commands[i]), target, commands, i + 1)

\* A forwarder that emits the bare event.
ForwarderUntagged(w, l, value) ==
    emit(Log(w, Step("publish", "all", 0, 0, [decider |-> "", event |-> value])),
         "all", [decider |-> "", event |-> value])

\* addDecider's listener: this.allEvents.emit({ decider: config.name, event })
Forwarder(w, l, value) ==
    LET envelope == [decider |-> l.unit, event |-> value]
    IN emit(Log(w, Step("publish", "all", 0, 0, envelope)), "all", envelope)

\* The listeners caller code subscribes to a bare EventBus: "rec" only
\* receives, "adder" subscribes the listener named target, "remover" calls
\* the unsubscribe closure of the listener named target, "reemit" emits a
\* further value on the same channel, "throws" throws.
BusKinds == {"rec", "adder", "remover", "reemit", "throws"}

BusListeners ==
    {Listener("rec", "bus", "R1", ""), Listener("rec", "bus", "R2", ""),
     Listener("adder", "bus", "Ad", "R2"), Listener("remover", "bus", "Rm", "R1"),
     Listener("reemit", "bus", "Re", ""), Listener("throws", "bus", "Th", "")}

BusListenerNamed(name) == CHOOSE l \in BusListeners : l.name = name

\* The names of the listeners in the channel's Set, in insertion order
Registered(w, ch) ==
    MapSeq(SelectSeq(w.listeners[ch], LAMBDA l : l # Removed), LAMBDA l : l.name)

\* bus.emit(value) called by caller code or by a listener; the history
\* records the call with the listeners registered at that moment, and the
\* return or throw of emit.
BusEmit(w, ch, value) ==
    LET w1 == Log(w, Step("emit", ch, 0, 0,
                          [value |-> value, registered |-> Registered(w, ch)]))
        w2 == emit(w1, ch, value)
    IN Log(w2, Step("emitted", ch, 0, 0, [value |-> value, threw |-> w2.exc # NoExc]))

\* Code holding the bus calls bus.subscribe(l) (history: "subscribe", with
\* the caller by).
SubscribeCall(w, ch, l, by) ==
    Log(Subscribe(w, ch, l), Step("subscribe", ch, 0, 0, [listener |-> l.name, by |-> by]))

\* Code calls the closure bus.subscribe(l) returned (history: "unsubscribe",
\* with the listeners registered before and after the call).
UnsubscribeCall(w, ch, l, by) ==
    LET w1 == Unsubscribe(w, ch, l)
    IN Log(w1, Step("unsubscribe", ch, 0, 0,
                    [listener |-> l.name, by |-> by, before |-> Registered(w, ch),
                     after |-> Registered(w1, ch), threw |-> w1.exc # w.exc]))

\* A listener of the bare bus is invoked with value (history: "deliver").
BusListener(w, l, value) ==
    LET w1 == Log(w, Step("deliver", l.unit, 0, 0,
                          [value |-> value, listener |-> l.name]))
    IN CASE l.kind = "rec" -> w1
         [] l.kind = "adder" -> SubscribeCall(w1, l.unit, BusListenerNamed(l.target), l.name)
         [] l.kind = "remover" ->
              UnsubscribeCall(w1, l.unit, BusListenerNamed(l.target), l.name)
         [] l.kind = "reemit" ->
              IF value.n < 10
              THEN BusEmit(w1, l.unit, [type |-> "V", n |-> 10 * value.n + 1])
              ELSE w1
         [] l.kind = "throws" -> [w1 EXCEPT !.exc = "listener"]

\* The predicates caller code passes to filter
predicate(name, value) ==
    CASE name = "p1" -> value.n # 2
      [] name = "p2" -> value.n < 10

\* The listener EventBus.filter subscribes:
\* (value) => { if (predicate(value)) filtered.emit(value) }
FilterListener(w, l, value) ==
    IF predicate(l.name, value) THEN BusEmit(w, l.target, value) ELSE w

\* EventBus.filter: the derived channel is the channel named derived; the
\* unsubscribe closure of the forwarding listener is dropped.
busFilter(w, ch, name, derived) ==
    Subscribe(w, ch, Listener("filter", ch, name, derived))

Invoke(w, l, value) ==
    CASE l.kind = "removed" -> w
      [] l.kind \in BusKinds -> BusListener(w, l, value)
      [] l.kind = "filter" -> FilterListener(w, l, value)
      [] l.kind = "tracer" -> Log(w, Step("trace", "trace", 0, 0, value))
      [] l.kind = "collect" ->
           [w EXCEPT !.traceLog = Collector(@, value)]
      [] l.kind = "projector" -> ProjectorListener(w, l, value)
      [] l.kind = "forward" -> Forwarder(w, l, value)
      [] l.kind = "probe" ->
           [w EXCEPT !.recv = Append(@, [unit |-> l.unit, event |-> value,
                                         read |-> w.state[l.unit]])]
      [] l.kind = "thrower" ->
           IF value.type = "Bad" THEN [w EXCEPT !.exc = "listener"] ELSE w
      [] l.kind = "redispatch" ->
           IF value.type \in {"Re", "Rv"}
           THEN dispatch(w, l.target, RedispatchCmd(value))
           ELSE w
      [] l.kind = "pm" -> ProcessManagerListener(w, l, value)

\* The loop going on with the next event when evolve throws.
RECURSIVE ProcessEventsSkipFailed(_, _, _, _, _, _)
ProcessEventsSkipFailed(w, u, cmd, did, emitted, i) ==
    IF i > Len(emitted) THEN w
    ELSE LET event == emitted[i]
             w1 == TraceEmit(w, [kind |-> "event", event |-> event, causedBy |-> cmd])
             r == evolve(u, w1.state[u], event, w1.clock)
             w2 == Log(w1, Step("evolve", u, did, i, event))
         IN IF ~r.ok
            THEN ProcessEventsSkipFailed(Catch([w2 EXCEPT !.exc = "evolve"], did),
                                         u, cmd, did, emitted, i + 1)
            ELSE LET w3 == [w2 EXCEPT !.state[u] = r.val]
                     w4 == TraceEmit(w3, [kind |-> "evolve", event |-> event])
                     w5 == emit(Log(w4, Step("publish", u, did, i, event)), u, event)
                 IN IF w5.exc # NoExc THEN w5
                    ELSE ProcessEventsSkipFailed(w5, u, cmd, did, emitted, i + 1)

\* The loop with the event published before it is folded.
RECURSIVE ProcessEventsPublishFirst(_, _, _, _, _, _)
ProcessEventsPublishFirst(w, u, cmd, did, emitted, i) ==
    IF i > Len(emitted) THEN w
    ELSE LET event == emitted[i]
             w1 == TraceEmit(w, [kind |-> "event", event |-> event, causedBy |-> cmd])
             w2 == emit(Log(w1, Step("publish", u, did, i, event)), u, event)
             r == evolve(u, w2.state[u], event, w2.clock)
             w3 == Log(w2, Step("evolve", u, did, i, event))
         IN IF w2.exc # NoExc THEN w2
            ELSE IF ~r.ok THEN [w3 EXCEPT !.exc = "evolve"]
            ELSE ProcessEventsPublishFirst(
                   TraceEmit([w3 EXCEPT !.state[u] = r.val],
                             [kind |-> "evolve", event |-> event]),
                   u, cmd, did, emitted, i + 1)

\* The loop with an empty batch announced on the unit's channel.
RECURSIVE ProcessEventsAnnouncesEmpty(_, _, _, _, _, _)
ProcessEventsAnnouncesEmpty(w, u, cmd, did, emitted, i) ==
    IF emitted = <<>>
    THEN emit(Log(w, Step("publish", u, did, 0, [type |-> "Trig", k |-> cmd.k, idx |-> 0, at |-> 0])),
              u, [type |-> "Trig", k |-> cmd.k, idx |-> 0, at |-> 0])
    ELSE IF i > Len(emitted) THEN w
    ELSE LET event == emitted[i]
         IN Strict(TraceEmit(w, [kind |-> "event", event |-> event, causedBy |-> cmd]), LAMBDA w1 :
            Strict(evolve(u, w1.state[u], event, w1.clock), LAMBDA r :
            Strict(Log(w1, Step("evolve", u, did, i, event)), LAMBDA w2 :
            IF ~r.ok THEN [w2 EXCEPT !.exc = "evolve"]
            ELSE Strict(TraceEmit([w2 EXCEPT !.state[u] = r.val], [kind |-> "evolve", event |-> event]), LAMBDA w4 :
                 Strict(emit(Log(w4, Step("publish", u, did, i, event)), u, event), LAMBDA w5 :
                 IF w5.exc # NoExc THEN w5
                    ELSE ProcessEventsAnnouncesEmpty(w5, u, cmd, did, emitted, i + 1))))))

\* for (const event of emitted) { evolve; publish }
RECURSIVE ProcessEvents(_, _, _, _, _, _)
ProcessEvents(w, u, cmd, did, emitted, i) ==
    IF i > Len(emitted) THEN w
    ELSE LET event == emitted[i]
         IN Strict(TraceEmit(w, [kind |-> "event", event |-> event, causedBy |-> cmd]), LAMBDA w1 :
            Strict(evolve(u, w1.state[u], event, w1.clock), LAMBDA r :
            Strict(Log(w1, Step("evolve", u, did, i, event)), LAMBDA w2 :
            IF ~r.ok THEN [w2 EXCEPT !.exc = "evolve"]
            ELSE Strict(TraceEmit([w2 EXCEPT !.state[u] = r.val], [kind |-> "evolve", event |-> event]), LAMBDA w4 :
                 Strict(emit(Log(w4, Step("publish", u, did, i, event)), u, event), LAMBDA w5 :
                 IF w5.exc # NoExc THEN w5
                    ELSE ProcessEvents(w5, u, cmd, did, emitted, i + 1))))))

\* The continuation completes the call without deciding the command.
ResumeDropsCommand(w, job) == AsyncReturn(w, job.unit, job.did)

\* dispatch after `await config.resolveContext(command)`: the microtask
\* that runs when the awaited context has settled.
Resume(w, job) ==
    IF ~job.ok
    THEN AsyncReturn(Catch([w EXCEPT !.exc = "resolveContext"], job.did),
                     job.unit, job.did)
    ELSE LET u == job.unit
             w1 == TraceEmit(w, [kind |-> "context", command |-> job.cmd])
             d == decide(u, job.cmd, w1.state[u], job.ctx)
             w2 == Log(w1, Step("decide", u, job.did, 0,
                                [threw |-> ~d.ok, events |-> d.val]))
         IN IF ~d.ok
            THEN AsyncReturn(Catch([w2 EXCEPT !.exc = "decide"], job.did), u, job.did)
            ELSE AsyncReturn(Catch(ProcessEvents(w2, u, job.cmd, job.did, d.val, 1),
                                   job.did), u, job.did)

\* A dispatch that does not suspend on a context that is already there.
dispatchDecidesAtOnce(w, u, cmd) ==
    LET did == Len(w.promise) + 1
        w1 == TraceEmit(Log([w EXCEPT !.promise = Append(@, "pending")],
                            Step("dispatch", u, did, 0, cmd)),
                        [kind |-> "command", command |-> cmd, source |-> "user"])
    IN IF HasSchema(u) /\ ~SafeParse(u, cmd)
       THEN LET validationEvent == ValidationEvent(cmd)
                w2 == TraceEmit(w1, [kind |-> "event", event |-> validationEvent,
                                     causedBy |-> cmd])
                w3 == emit(Log(w2, Step("publish", u, did, 0, validationEvent)),
                           u, validationEvent)
            IN AsyncReturn(Catch(w3, did), u, did)
       ELSE LET mode == ContextMode(u, cmd)
                ctx == resolveContext(u, cmd, w1.clock)
                w2 == Log(w1, Step("resolveContext", u, did, 0, None))
            IN CASE mode = "throw" ->
                      AsyncReturn(Catch([w2 EXCEPT !.exc = "resolveContext"], did), u, did)
                 [] mode = "async" ->
                      [w2 EXCEPT !.waiting = @ \cup {Job("cont", did, u, cmd, ctx, TRUE)}]
                 [] mode = "never" ->
                      [w2 EXCEPT !.waiting = @ \cup {Job("stuck", did, u, cmd, ctx, TRUE)}]
                 [] OTHER ->
                      Resume(w2, Job("cont", did, u, cmd, ctx, mode # "reject"))

\* dispatch up to its first await
dispatch(w, u, cmd) ==
    LET did == Len(w.promise) + 1
        w1 == TraceEmit(Log([w EXCEPT !.promise = Append(@, "pending")],
                            Step("dispatch", u, did, 0, cmd)),
                        [kind |-> "command", command |-> cmd, source |-> "user"])
    IN IF HasSchema(u) /\ ~SafeParse(u, cmd)
       THEN LET validationEvent == ValidationEvent(cmd)
                w2 == TraceEmit(w1, [kind |-> "event", event |-> validationEvent,
                                     causedBy |-> cmd])
                w3 == emit(Log(w2, Step("publish", u, did, 0, validationEvent)),
                           u, validationEvent)
            IN AsyncReturn(Catch(w3, did), u, did)
       ELSE LET mode == ContextMode(u, cmd)
                ctx == resolveContext(u, cmd, w1.clock)
                w2 == Log(w1, Step("resolveContext", u, did, 0, None))
            IN CASE mode = "throw" ->
                      AsyncReturn(Catch([w2 EXCEPT !.exc = "resolveContext"], did), u, did)
                 [] mode = "async" ->
                      [w2 EXCEPT !.waiting = @ \cup {Job("cont", did, u, cmd, ctx, TRUE)}]
                 [] mode = "never" ->
                      [w2 EXCEPT !.waiting = @ \cup {Job("stuck", did, u, cmd, ctx, TRUE)}]
                 [] OTHER ->
                      [w2 EXCEPT !.microQ = Append(@, Job("cont", did, u, cmd, ctx,
                                                          mode # "reject"))]

-----------------------------------------------------------------------------
(* Persistence (src/src/persistence.ts) with the LocalStorageAdapter and    *)
(* the default options (saveEvents false).  The states of the units are    *)
(* arrays of plain objects with string and number fields, which            *)
(* JSON.parse(JSON.stringify(v)) gives back as an equal value; the stored   *)
(* item is the text, kept apart from the value by its wrapper.             *)

\* localStorage.getItem of a key that was never written
NoItem == [none |-> TRUE]

JSONstringify(v) == [json |-> v]

JSONparse(item) == item.json

\* LocalStorageAdapter.save: an async function without await, setItem is
\* done when the call returns.
AdapterSave(w, key, st) == [w EXCEPT !.stored[key] = JSONstringify(st)]

\* LocalStorageAdapter.load: the value of the fulfilled promise it returns
AdapterLoad(w, key) == w.stored[key]

\* PersistenceManager.saveDeciderState
saveDeciderState(w, u) == AdapterSave(w, u, w.state[u])

\* PersistenceManager.loadDeciderState up to `await this.adapter.load`: the
\* item is read now, the continuation is a microtask.
loadDeciderState(w, u) ==
    [w EXCEPT !.microQ = Append(@, Job("load", 0, u, AdapterLoad(w, u),
                                       [timestamp |-> 0], TRUE))]

\* loadDeciderState after the await: decider.state.value = savedState
ResumeLoad(w, job) ==
    IF job.cmd = NoItem THEN w
    ELSE [w EXCEPT !.state[job.unit] = JSONparse(job.cmd)]

\* new PersistenceManager(adapter) before enableForDecider: saveTimeouts is
\* empty (0 stands for no entry), no interval runs.  pending is the set of
\* the save timeouts that were set and have neither fired nor been cleared,
\* timers counts the calls of setTimeout, since is the length of the
\* history when enableForDecider was called.
NoManager ==
    [enabled |-> FALSE, previousState |-> GenInitialState, saveTimeouts |-> 0,
     pending |-> {}, timers |-> 0, since |-> 0]

\* PersistenceManager.clearSaveTimeout
clearSaveTimeout(m) ==
    IF m.saveTimeouts # 0
    THEN [m EXCEPT !.pending = @ \ {m.saveTimeouts}, !.saveTimeouts = 0]
    ELSE m

\* PersistenceManager.scheduleSave
scheduleSave(m) ==
    LET timeout == m.timers + 1
    IN [clearSaveTimeout(m) EXCEPT !.pending = @ \cup {timeout},
                                   !.saveTimeouts = timeout,
                                   !.timers = timeout]

\* The callback of setInterval in subscribeToStateChanges; !== compares
\* references, which for the states of a generic unit differ exactly when
\* the values do.
poll(m, currentState) ==
    IF currentState # m.previousState
    THEN scheduleSave([m EXCEPT !.previousState = currentState])
    ELSE m

-----------------------------------------------------------------------------
(* Actions *)

\* The quantifier binds the state the code leaves once for all variables.
Commit(w) ==
    \E v \in {w} :
        /\ state' = v.state
        /\ traceLog' = v.traceLog
        /\ listeners' = v.listeners
        /\ microQ' = v.microQ
        /\ waiting' = v.waiting
        /\ promise' = v.promise
        /\ awaited' = v.awaited
        /\ clock' = v.clock
        /\ hist' = v.hist
        /\ recv' = v.recv
        /\ seen' = v.seen
        /\ users' = v.users
        /\ deciders' = v.deciders
        /\ cleanups' = v.cleanups
        /\ readState' = v.readState
        /\ stored' = v.stored
        /\ manager' = manager

\* Caller code: p = unit.dispatch(cmd), and with aw the caller awaits p.
UserDispatch(u, cmd, aw) ==
    LET did == Len(promise) + 1
        w1 == dispatch(World, u, cmd)
        w2 == IF ~aw THEN w1
              ELSE IF w1.promise[did] = "pending"
              THEN [w1 EXCEPT !.awaited = @ \cup {did}]
              ELSE [w1 EXCEPT !.microQ = Append(@, CallerJob(did))]
    IN Commit([w2 EXCEPT !.users = @ + 1])

\* The pending promise a dispatch awaits is fulfilled or rejected.
ContextSettles ==
    \E job \in waiting, ok \in BOOLEAN :
        /\ job.kind = "cont"
        /\ waiting' = waiting \ {job}
        /\ microQ' = Append(microQ, [job EXCEPT !.ok = ok])
        /\ hist' = Append(hist, Step("settled", job.unit, job.did, 0, [ok |-> ok]))
        /\ UNCHANGED <<state, traceLog, listeners, promise, awaited, clock,
                       recv, seen, users, deciders, cleanups, readState, stored,
                       manager>>

\* The head of the microtask queue runs to completion.
RunMicrotask ==
    /\ microQ # <<>>
    /\ LET job == Head(microQ)
           w0 == [World EXCEPT !.microQ = Tail(@)]
       IN IF job.kind = "caller"
          THEN Commit([w0 EXCEPT !.seen = @ \cup {[did |-> job.did, state |-> w0.state]}])
          ELSE IF job.kind = "load"
          THEN Commit(ResumeLoad(w0, job))
          ELSE Commit(Resume(w0, job))

\* Date.now() advances.
Tick ==
    /\ clock < MaxClock
    /\ clock' = clock + 1
    /\ UNCHANGED <<state, traceLog, listeners, microQ, waiting, promise, awaited,
                   hist, recv, seen, users, deciders, cleanups, readState, stored,
                   manager>>

-----------------------------------------------------------------------------
(* The generic system: units A and B, a Reaction Unit from A to B, and on  *)
(* A's channel a listener that dispatches back to A, a recording listener  *)
(* and a listener that throws on "Bad".                                    *)

Channels == Units \cup {"all", "trace", "bus", "filtered", "filtered2"}

NoListeners == [ch \in Channels |-> <<>>]

GenListeners ==
    [NoListeners EXCEPT
       !["trace"] = <<Listener("collect", "", "", "")>>,
       !["A"] = <<Listener("forward", "A", "", ""),
                  Listener("pm", "A", "AtoB", "B"),
                  Listener("redispatch", "A", "", "A"),
                  Listener("probe", "A", "", ""),
                  Listener("thrower", "A", "", "")>>,
       !["B"] = <<Listener("forward", "B", "", ""),
                  Listener("probe", "B", "", "")>>]

ChannelOrder ==
    <<"trace", "Catalog", "Cart", "Order", "A", "B", "C", "Counter", "Todo", "all">>

\* What the System pushed on cleanups while the listeners ls were registered
RECURSIVE CleanupsOf(_, _)
CleanupsOf(ls, chs) ==
    IF chs = <<>> THEN <<>>
    ELSE LET ch == Head(chs)
             own == SelectSeq(ls[ch], LAMBDA l : l.kind \in {"collect", "forward", "pm",
                                                             "projector"})
         IN [i \in 1..Len(own) |-> [ch |-> ch, l |-> own[i]]] \o CleanupsOf(ls, Tail(chs))

InitWith(ls) ==
    /\ state = [u \in Units |-> initialState(u)]
    /\ traceLog = <<>>
    /\ listeners = ls
    /\ microQ = <<>>
    /\ waiting = {}
    /\ promise = <<>>
    /\ awaited = {}
    /\ clock = 1
    /\ hist = <<>>
    /\ recv = <<>>
    /\ seen = {}
    /\ users = 0
    /\ deciders = {u \in Units : \E i \in DOMAIN ls[u] : ls[u][i].kind = "forward"}
    /\ cleanups = CleanupsOf(ls, ChannelOrder)
    /\ readState = [n \in Projectors |-> ProjectorInitialState(n)]
    /\ stored = [u \in Units |-> NoItem]
    /\ manager = NoManager

Init == InitWith(GenListeners)

Shape(evs, bad, ctx, decideThrows) ==
    [evs |-> evs, bad |-> bad, ctx |-> ctx, decideThrows |-> decideThrows]

ShapesA ==
    {Shape(evs, {}, "sync", FALSE) :
        evs \in {<<>>, <<"E1", "E2">>, <<"E1", "Boom", "E2">>, <<"Trig", "E1">>,
                 <<"E1", "Bad", "E2">>, <<"Re", "E2">>, <<"Rv", "E2">>}}
    \cup {Shape(<<"E1", "E2">>, {}, "async", FALSE),
          Shape(<<"E1">>, {"payload"}, "sync", FALSE),
          Shape(<<"E1">>, {}, "throw", FALSE),
          Shape(<<"E1">>, {}, "reject", FALSE),
          Shape(<<"E1">>, {}, "sync", TRUE)}

ShapesB ==
    {Shape(<<"E1", "E2">>, {}, "async", FALSE),
     Shape(<<"E1">>, {"payload"}, "sync", FALSE)}

GenCmd(shape, k) ==
    [type |-> "Op", k |-> k, evs |-> shape.evs, bad |-> shape.bad,
     ctx |-> shape.ctx, decideThrows |-> shape.decideThrows]

DispatchA ==
    /\ users < MaxUserCmds
    /\ \E shape \in ShapesA : UserDispatch("A", GenCmd(shape, users + 1), FALSE)

DispatchB ==
    /\ users < MaxUserCmds
    /\ \E shape \in ShapesB : UserDispatch("B", GenCmd(shape, users + 1), FALSE)

Next == DispatchA \/ DispatchB \/ ContextSettles \/ RunMicrotask

Spec == Init /\ [][Next]_vars

-----------------------------------------------------------------------------
(* The ecommerce system as createEcommerceSystem wires it: the three units *)
(* in the order catalog, cart, order, the checkout Reaction Unit from Cart *)
(* to Order and the inventory Reaction Unit from Order to Catalog.         *)

EcommerceListeners ==
    [NoListeners EXCEPT
       !["trace"] = <<Listener("collect", "", "", "")>>,
       !["Catalog"] = <<Listener("forward", "Catalog", "", "")>>,
       !["Cart"] = <<Listener("forward", "Cart", "", ""),
                     Listener("pm", "Cart", "CheckoutProcessManager", "Order")>>,
       !["Order"] = <<Listener("forward", "Order", "", ""),
                      Listener("pm", "Order", "InventoryProcessManager", "Catalog")>>]

InitEcommerce == InitWith(EcommerceListeners)

Cmd(type, payload) == [type |-> type, payload |-> payload]

CartCommands ==
    {Cmd("CreateCart", [id |-> c, customerId |-> "customer-123"]) : c \in CartIds}
    \cup {Cmd("AddToCart", [cartId |-> c, productId |-> pr, quantity |-> q]) :
             c \in CartIds, pr \in ProductIds, q \in Quantities}
    \cup {Cmd("ClearCart", [cartId |-> c]) : c \in CartIds}

CheckoutCommands == {Cmd("CheckoutCart", [cartId |-> c]) : c \in CartIds}

CatalogCommands ==
    {Cmd("AddProduct", [id |-> pr, price |-> MOCK_PRICE, stock |-> 1]) : pr \in ProductIds}

DispatchCart ==
    /\ users < MaxEcomCmds
    /\ \E cmd \in CartCommands : UserDispatch("Cart", cmd, FALSE)

DispatchCheckout ==
    /\ users < MaxEcomCmds
    /\ \E cmd \in CheckoutCommands, aw \in BOOLEAN : UserDispatch("Cart", cmd, aw)

DispatchCatalog ==
    /\ users < MaxEcomCmds
    /\ \E cmd \in CatalogCommands : UserDispatch("Catalog", cmd, FALSE)

NextEcommerce == DispatchCart \/ DispatchCheckout \/ DispatchCatalog \/ RunMicrotask \/ Tick

SpecEcommerce == InitEcommerce /\ [][NextEcommerce]_vars

\* A shopper who creates a cart, adds products and checks out.
MaxShopperCmds == 3

ShopperCommands ==
    {Cmd("CreateCart", [id |-> c, customerId |-> "customer-123"]) : c \in CartIds}
    \cup {Cmd("AddToCart", [cartId |-> c, productId |-> pr, quantity |-> 1]) :
             c \in CartIds, pr \in ProductIds}
    \cup CheckoutCommands

DispatchShopper ==
    /\ users < MaxShopperCmds
    /\ \E cmd \in ShopperCommands : UserDispatch("Cart", cmd, FALSE)

NextShopper == DispatchShopper \/ RunMicrotask

SpecShopper == InitEcommerce /\ [][NextShopper]_vars

\* The shopper with one more command, so that a filled cart can be checked
\* out twice.
MaxCheckoutCmds == 4

DispatchTwice ==
    /\ users < MaxCheckoutCmds
    /\ \E cmd \in ShopperCommands : UserDispatch("Cart", cmd, FALSE)

NextCheckout == DispatchTwice \/ RunMicrotask

SpecCheckout == InitEcommerce /\ [][NextCheckout]_vars

\* The event loop runs every queued microtask: a continuation that is
\* ready is eventually run.
FairShopper == SpecShopper /\ WF_vars(RunMicrotask)

-----------------------------------------------------------------------------
(* The System's registration calls and destroy *)

\* new System(): the trace collector is subscribed and pushed on cleanups.
Constructed ==
    LET collector == Listener("collect", "", "", "")
    IN [state |-> [u \in Units |-> initialState(u)],
        traceLog |-> <<>>,
        listeners |-> [NoListeners EXCEPT !["trace"] = <<collector>>],
        microQ |-> <<>>, waiting |-> {}, promise |-> <<>>, awaited |-> {},
        clock |-> 1, hist |-> <<>>, recv |-> <<>>, seen |-> {}, users |-> 0,
        deciders |-> {},
        cleanups |-> <<[ch |-> "trace", l |-> collector]>>,
        readState |-> [n \in Projectors |-> ProjectorInitialState(n)],
        stored |-> [u \in Units |-> NoItem],
        exc |-> NoExc]

\* cleanups.push(bus.subscribe(listener))
Register(w, ch, l) ==
    [Subscribe(w, ch, l) EXCEPT !.cleanups = Append(@, [ch |-> ch, l |-> l])]

\* addDecider without the check of the name.
addDeciderNoCheck(w, name) ==
    Register([w EXCEPT !.state[name] = initialState(name),
                       !.deciders = @ \cup {name}],
             name, Listener("forward", name, "", ""))

\* System.addDecider
addDecider(w, name) ==
    IF name \in w.deciders THEN [w EXCEPT !.exc = "exists"]
    ELSE Register([w EXCEPT !.state[name] = initialState(name),
                            !.deciders = @ \cup {name}],
                  name, Listener("forward", name, "", ""))

\* System.addProjector
addProjector(w, name, source) ==
    Register([w EXCEPT !.readState[name] = ProjectorInitialState(name)],
             source, Listener("projector", source, name, ""))

\* System.addGlobalProjector
addGlobalProjector(w, name) ==
    Register([w EXCEPT !.readState[name] = ProjectorInitialState(name)],
             "all", Listener("projector", "all", name, ""))

\* System.addProcessManager
addProcessManager(w, name, source, target) ==
    Register(w, source, Listener("pm", source, name, target))

\* A destroy that leaves the Read Model Builders subscribed.
RECURSIVE destroyKeepsProjectors(_, _)
destroyKeepsProjectors(w, i) ==
    IF i > Len(w.cleanups) THEN w
    ELSE IF w.cleanups[i].l.kind = "projector" THEN destroyKeepsProjectors(w, i + 1)
    ELSE destroyKeepsProjectors(Unsubscribe(w, w.cleanups[i].ch, w.cleanups[i].l), i + 1)

\* System.destroy: this.cleanups.forEach((fn) => fn())
RECURSIVE destroy(_, _)
destroy(w, i) ==
    IF i > Len(w.cleanups) THEN w
    ELSE destroy(Unsubscribe(w, w.cleanups[i].ch, w.cleanups[i].l), i + 1)

-----------------------------------------------------------------------------
(* A system with Read Model Builders: units A and B, on A's channel the    *)
(* builder "PA", the Reaction Unit "Reactor" from A to B, a recording      *)
(* listener subscribed by the caller and the builder "PA2", in that order; *)
(* the builder "PG" on the global channel.  Unit C is registered later.    *)

MaxSysCalls == 3

WiredSystem ==
    LET w1 == addDecider(addDecider(Constructed, "A"), "B")
        w2 == addProjector(w1, "PA", "A")
        w3 == addProcessManager(w2, "Reactor", "A", "B")
        w4 == Subscribe(w3, "A", Listener("probe", "A", "", ""))
        w5 == addProjector(w4, "PA2", "A")
        w6 == addGlobalProjector(w5, "PG")
    IN Subscribe(w6, "B", Listener("probe", "B", "", ""))

InitFrom(w) ==
    /\ state = w.state
    /\ traceLog = w.traceLog
    /\ listeners = w.listeners
    /\ microQ = w.microQ
    /\ waiting = w.waiting
    /\ promise = w.promise
    /\ awaited = w.awaited
    /\ clock = w.clock
    /\ hist = w.hist
    /\ recv = w.recv
    /\ seen = w.seen
    /\ users = w.users
    /\ deciders = w.deciders
    /\ cleanups = w.cleanups
    /\ readState = w.readState
    /\ stored = w.stored
    /\ manager = NoManager

InitSystem == InitFrom(WiredSystem)

SysShapesA ==
    {Shape(evs, {}, "sync", FALSE) :
        evs \in {<<"E1", "E2">>, <<"E1", "PBad", "E2">>, <<"E1", "FBad", "E2">>,
                 <<"E1", "RBad", "E2">>, <<"Trig">>}}
    \cup {Shape(<<"E1">>, {"payload"}, "sync", FALSE)}

\* Caller code dispatches a command to A, or to C once C is registered.
DispatchSys ==
    /\ users < MaxSysCalls
    /\ \/ \E shape \in SysShapesA : UserDispatch("A", GenCmd(shape, users + 1), FALSE)
       \/ /\ "C" \in deciders
          /\ UserDispatch("C", GenCmd(Shape(<<"E1">>, {}, "sync", FALSE), users + 1), FALSE)

\* Caller code: try { system.addDecider(config) } catch {}
AddDeciderCall ==
    /\ users < MaxSysCalls
    /\ \E name \in {"A", "C"} :
          LET w1 == addDecider(World, name)
              w2 == Log(w1, Step("addDecider", name, 0, 0, [threw |-> w1.exc # NoExc]))
          IN Commit([w2 EXCEPT !.exc = NoExc, !.users = @ + 1])

\* Caller code: system.destroy()
DestroyCall ==
    /\ users < MaxSysCalls
    /\ LET w1 == destroy(World, 1)
           w2 == Log(w1, Step("destroy", "", 0, 0, [threw |-> w1.exc # NoExc]))
       IN Commit([w2 EXCEPT !.exc = NoExc, !.users = @ + 1])

NextSystem == DispatchSys \/ AddDeciderCall \/ DestroyCall \/ RunMicrotask

SpecSystem == InitSystem /\ [][NextSystem]_vars

-----------------------------------------------------------------------------
(* The generic system with a PersistenceManager on unit A *)

MaxPersistCalls == 4

DispatchPersisted ==
    /\ users < MaxPersistCalls
    /\ UserDispatch("A", GenCmd(Shape(<<"E1", "E2">>, {}, "sync", FALSE), users + 1), FALSE)

\* Caller code (or the auto-save timer): manager.saveDeciderState(A)
SaveCall ==
    /\ users < MaxPersistCalls
    /\ Commit([saveDeciderState(World, "A") EXCEPT !.users = @ + 1])

\* Caller code: manager.loadDeciderState(A), also what enableForDecider
\* starts without awaiting it
LoadCall ==
    /\ users < MaxPersistCalls
    /\ Commit([loadDeciderState(World, "A") EXCEPT !.users = @ + 1])

NextPersistence == DispatchPersisted \/ SaveCall \/ LoadCall \/ RunMicrotask

SpecPersistence == Init /\ [][NextPersistence]_vars

-----------------------------------------------------------------------------
(* The trace log: a System with unit A (which has a command schema) and a  *)
(* listener caller code subscribed to system.trace that records every      *)
(* entry (history).  Every command dispatched fails the schema: dispatch   *)
(* emits its two trace entries and returns without a continuation.         *)

MaxTraceCmds == 102

TracedSystem ==
    Subscribe(addDecider(Constructed, "A"), "trace", Listener("tracer", "trace", "", ""))

InitTrace == InitFrom(TracedSystem)

DispatchRejected ==
    /\ users < MaxTraceCmds
    /\ UserDispatch("A", GenCmd(Shape(<<"E1">>, {"payload"}, "sync", FALSE), users + 1),
                    FALSE)

NextTrace == DispatchRejected

SpecTrace == InitTrace /\ [][NextTrace]_vars

-----------------------------------------------------------------------------
(* A bare EventBus used by caller code: subscribe, the unsubscribe closure *)
(* and emit, with listeners that subscribe, unsubscribe, emit and throw    *)
(* during a delivery.                                                      *)

MaxBusCalls == 4

InitBus == InitFrom(Constructed)

\* Caller code: bus.subscribe(l)
BusSubscribeCall ==
    /\ users < MaxBusCalls
    /\ \E l \in BusListeners :
          Commit([SubscribeCall(World, "bus", l, "caller") EXCEPT !.users = @ + 1])

\* Caller code calls the closure an earlier bus.subscribe(l) returned.
BusUnsubscribeCall ==
    /\ users < MaxBusCalls
    /\ \E l \in BusListeners :
          /\ \E p \in DOMAIN hist : /\ hist[p].op = "subscribe"
                                    /\ hist[p].val.listener = l.name
                                    /\ hist[p].val.by = "caller"
          /\ Commit([UnsubscribeCall(World, "bus", l, "caller") EXCEPT !.users = @ + 1])

\* Caller code: try { bus.emit(value) } catch {}
BusEmitCall ==
    /\ users < MaxBusCalls
    /\ Commit([BusEmit(World, "bus", [type |-> "V", n |-> users + 1])
               EXCEPT !.exc = NoExc, !.users = @ + 1])

NextBus == BusSubscribeCall \/ BusUnsubscribeCall \/ BusEmitCall

SpecBus == InitBus /\ [][NextBus]_vars

-----------------------------------------------------------------------------
(* The counter example: a System with the counter unit and a Read Model    *)
(* Builder that counts its Incremented events.  Amounts outside 1..100     *)
(* fail the command schema.                                                *)

MaxCounterCmds == 3

CounterSystem == addProjector(addDecider(Constructed, "Counter"), "IncCount", "Counter")

InitCounter == InitFrom(CounterSystem)

CounterCommands ==
    {Cmd("Increment", [amount |-> a]) : a \in {3, 4, 0 - 5}}
    \cup {Cmd("Decrement", [amount |-> a]) : a \in {2, 5}}
    \cup {Cmd("SetCountdownTarget", [target |-> 5])}
    \cup {Cmd("ChangeMode", [mode |-> "countdown"])}
    \cup {[type |-> t] : t \in {"Reset", "Pause", "Resume"}}

DispatchCounter ==
    /\ users < MaxCounterCmds
    /\ \E cmd \in CounterCommands : UserDispatch("Counter", cmd, FALSE)

NextCounter == DispatchCounter \/ RunMicrotask

SpecCounter == InitCounter /\ [][NextCounter]_vars

-----------------------------------------------------------------------------
(* The todo example: a System with the todo unit *)

MaxTodoCmds == 4

TodoIds == {"t1"}

InitTodo == InitFrom(addDecider(Constructed, "Todo"))

TodoCommands ==
    {Cmd("AddTodo", [id |-> i, text |-> 5]) : i \in TodoIds}
    \cup {Cmd("UpdateTodoText", [id |-> i, text |-> 7]) : i \in TodoIds}
    \cup {Cmd(t, [id |-> i]) :
             t \in {"CompleteTodo", "ReactivateTodo", "ArchiveTodo"}, i \in TodoIds}

DispatchTodo ==
    /\ users < MaxTodoCmds
    /\ \E cmd \in TodoCommands : UserDispatch("Todo", cmd, FALSE)

NextTodo == DispatchTodo \/ RunMicrotask

SpecTodo == InitTodo /\ [][NextTodo]_vars

-----------------------------------------------------------------------------
(* The ecommerce system with commands dispatched to the Order unit *)

MaxOrderCmds == 3

OrderIds == {"o1"}

OrderCommands ==
    {Cmd("CreateOrder",
         [orderId |-> o, customerId |-> "customer-123",
          items |-> <<[productId |-> "p1", productName |-> "Product",
                       quantity |-> 1, unitPrice |-> MOCK_PRICE]>>,
          shippingAddress |-> "123 Main St", billingInfo |-> "Visa 4242"]) :
        o \in OrderIds}
    \cup {Cmd("ProcessPayment", [orderId |-> o, paymentId |-> "pay-1"]) : o \in OrderIds}

DispatchToOrder ==
    /\ users < MaxOrderCmds
    /\ \E cmd \in OrderCommands : UserDispatch("Order", cmd, FALSE)

NextOrder == DispatchToOrder \/ RunMicrotask \/ Tick

SpecOrder == InitEcommerce /\ [][NextOrder]_vars

-----------------------------------------------------------------------------
(* A system whose Reaction Units form a cycle: "Ping" from A to B and      *)
(* "Pong" from B to A.  The cascade has no end; the model stops running    *)
(* continuations once MaxCascade dispatch calls have been made.            *)

MaxCycleCmds == 2

MaxCascade == 8

CyclicSystem ==
    LET w1 == addDecider(addDecider(Constructed, "A"), "B")
        w2 == addProcessManager(w1, "Ping", "A", "B")
    IN addProcessManager(w2, "Pong", "B", "A")

InitCycle == InitFrom(CyclicSystem)

CycleShapes == {Shape(evs, {}, "sync", FALSE) : evs \in {<<"E1">>, <<"Trig">>}}

DispatchCycle ==
    /\ users < MaxCycleCmds
    /\ \E u \in {"A", "B"}, shape \in CycleShapes : UserDispatch(u, GenCmd(shape, 0), FALSE)

RunCascade ==
    /\ Len(promise) < MaxCascade
    /\ RunMicrotask

NextCycle == DispatchCycle \/ RunCascade

SpecCycle == InitCycle /\ [][NextCycle]_vars

-----------------------------------------------------------------------------
(* The system with Read Model Builders and commands whose decision is the  *)
(* empty list.                                                             *)

MaxNoopCmds == 2

NoopShapes ==
    {Shape(evs, {}, "sync", FALSE) : evs \in {<<>>, <<"E1">>, <<"Trig">>}}
    \cup {Shape(<<>>, {}, "async", FALSE)}

DispatchNoop ==
    /\ users < MaxNoopCmds
    /\ \E shape \in NoopShapes : UserDispatch("A", GenCmd(shape, users + 1), FALSE)

NextNoop == DispatchNoop \/ ContextSettles \/ RunMicrotask

SpecNoop == InitSystem /\ [][NextNoop]_vars

-----------------------------------------------------------------------------
(* A system with two Reaction Units on A's channel: "AtoB" dispatches to B *)
(* and "Loop" dispatches back to A.                                        *)

MaxDeferredCmds == 2

DeferredSystem ==
    LET w1 == addDecider(addDecider(Constructed, "A"), "B")
        w2 == addProcessManager(w1, "AtoB", "A", "B")
    IN addProcessManager(w2, "Loop", "A", "A")

InitDeferred == InitFrom(DeferredSystem)

DeferredShapes ==
    {Shape(evs, {}, "sync", FALSE) :
        evs \in {<<"E1">>, <<"Trig", "E1">>, <<"Trig", "Boom", "E2">>}}
    \cup {Shape(<<"Trig", "E1">>, {}, "async", FALSE)}

DispatchDeferred ==
    /\ users < MaxDeferredCmds
    /\ \E shape \in DeferredShapes : UserDispatch("A", GenCmd(shape, users + 1), FALSE)

NextDeferred == DispatchDeferred \/ ContextSettles \/ RunMicrotask

SpecDeferred == InitDeferred /\ [][NextDeferred]_vars

-----------------------------------------------------------------------------
(* The ecommerce system with every command of the Order unit.  Caller code *)
(* dispatches the next command when the queue has drained, and stops after *)
(* MaxRejected commands were rejected.                                     *)

MaxLifecycleCmds == 7

MaxRejected == 1

LifecycleCommands ==
    OrderCommands
    \cup UNION {{[type |-> "ConfirmPayment", random |-> b,
                  payload |-> [orderId |-> o, paymentId |-> "pay-1"]] : b \in BOOLEAN}
                \cup {Cmd("FailPayment", [orderId |-> o, reason |-> "declined"]),
                      Cmd("ShipOrder", [orderId |-> o, trackingNumber |-> "track-1"]),
                      Cmd("DeliverOrder", [orderId |-> o]),
                      Cmd("CancelOrder", [orderId |-> o, reason |-> "changed mind"]),
                      Cmd("RefundOrder", [orderId |-> o, amount |-> 100])} :
                o \in OrderIds}

\* The commands of the Order unit rejected so far
RejectedOrders ==
    {p \in 1..Len(hist) : /\ hist[p].op = "publish" /\ hist[p].unit = "Order"
                          /\ hist[p].val.type = "OrderCommandFailed"}

DispatchLifecycle ==
    /\ users < MaxLifecycleCmds
    /\ microQ = <<>>
    /\ Cardinality(RejectedOrders) < MaxRejected
    /\ \E cmd \in LifecycleCommands : UserDispatch("Order", cmd, FALSE)

NextLifecycle == DispatchLifecycle \/ RunMicrotask

SpecLifecycle == InitEcommerce /\ [][NextLifecycle]_vars

-----------------------------------------------------------------------------
(* The generic system with commands whose context never resolves *)

MaxBlockedCmds == 2

BlockedShapes ==
    {Shape(<<"E1">>, {}, "never", FALSE), Shape(<<"E1">>, {}, "sync", FALSE),
     Shape(<<"E1", "E2">>, {}, "async", FALSE)}

DispatchBlocked ==
    /\ users < MaxBlockedCmds
    /\ \E u \in {"A", "B"}, shape \in BlockedShapes :
          UserDispatch(u, GenCmd(shape, users + 1), FALSE)

NextBlocked == DispatchBlocked \/ ContextSettles \/ RunMicrotask

SpecBlocked == Init /\ [][NextBlocked]_vars

-----------------------------------------------------------------------------
(* Filtered channels: caller code derives filtered = bus.filter(p1) and    *)
(* filtered2 = filtered.filter(p2), subscribes listeners to the three      *)
(* channels and emits on bus.                                              *)

MaxFilterCalls == 5

\* The channel was returned by a filter call
Derived(ch) ==
    \E c \in Channels : \E i \in DOMAIN listeners[c] :
        listeners[c][i].kind = "filter" /\ listeners[c][i].target = ch

FilterSubscribers ==
    {Listener("reemit", "bus", "Re", ""), Listener("throws", "bus", "Th", ""),
     Listener("rec", "bus", "R1", ""), Listener("rec", "filtered", "D1", ""),
     Listener("rec", "filtered2", "DD1", "")}

\* Caller code: bus.filter(p1), or filtered.filter(p2) once filtered exists
FilterCall ==
    /\ users < MaxFilterCalls
    /\ \E f \in {<<"bus", "p1", "filtered">>, <<"filtered", "p2", "filtered2">>} :
          /\ f[1] = "bus" \/ Derived(f[1])
          /\ ~Derived(f[3])
          /\ Commit([Log(busFilter(World, f[1], f[2], f[3]),
                         Step("filter", f[1], 0, 0, [derived |-> f[3]]))
                     EXCEPT !.users = @ + 1])

\* Caller code subscribes a listener to bus or to a derived channel.
FilterSubscribeCall ==
    /\ users < MaxFilterCalls
    /\ \E l \in FilterSubscribers :
          /\ l.unit = "bus" \/ Derived(l.unit)
          /\ \A i \in DOMAIN listeners[l.unit] : listeners[l.unit][i] # l
          /\ Commit([SubscribeCall(World, l.unit, l, "caller") EXCEPT !.users = @ + 1])

\* Caller code: try { bus.emit(value) } catch {}
FilterEmitCall ==
    /\ users < MaxFilterCalls
    /\ \E n \in 1..2 :
          Commit([BusEmit(World, "bus", [type |-> "V", n |-> n])
                  EXCEPT !.exc = NoExc, !.users = @ + 1])

NextFilter == FilterCall \/ FilterSubscribeCall \/ FilterEmitCall

SpecFilter == InitBus /\ [][NextFilter]_vars

-----------------------------------------------------------------------------
(* Reading the history *)

Dids == 1..Len(promise)

Pos == 1..Len(hist)

Has(op, d) == \E p \in Pos : hist[p].op = op /\ hist[p].did = d

StepOf(op, d) == hist[CHOOSE p \in Pos : hist[p].op = op /\ hist[p].did = d]

UnitOf(d) == StepOf("dispatch", d).unit

CmdOf(d) == StepOf("dispatch", d).val

\* The list decide returned for dispatch call d
Decided(d) == StepOf("decide", d).val.events

\* What was published on the channel of unit u, in order
Pub(u) == SelectSeq(hist, LAMBDA e : e.op = "publish" /\ e.unit = u)

\* The events dispatch call d published / passed to evolve, in order
PublishedBy(d) ==
    MapSeq(SelectSeq(hist, LAMBDA e : e.op = "publish" /\ e.did = d), LAMBDA e : e.val)

EvolveCallsOf(d) ==
    MapSeq(SelectSeq(hist, LAMBDA e : e.op = "evolve" /\ e.did = d), LAMBDA e : e.val)

\* The events of the command with key k folded into the state of a generic unit
FoldedOf(u, k) == SelectSeq(state[u], LAMBDA e : e.k = k)

ErrorsOf(d) == SelectSeq(traceLog, LAMBDA e : e.kind = "error" /\ e.did = d)

Returned(d) == promise[d] # "pending"

-----------------------------------------------------------------------------
(* Properties *)

\* C1: commands of one unit are processed in dispatch order: when decide
\* runs for a command, every command dispatched earlier on the same unit
\* has completed its whole decide, evolve, publish sequence.
DispatchOrder ==
    \A d1, d2 \in Dids :
        (d1 < d2 /\ UnitOf(d1) = UnitOf(d2) /\ Has("decide", d2)) => Returned(d1)

\* C2: on one unit's channel the events of two commands never interleave:
\* between two events of one command no event of another command is
\* published.
NoInterleaving ==
    \A u \in Units :
        LET pu == Pub(u) IN
        \A p, q, r \in 1..Len(pu) :
            (p < q /\ q < r /\ pu[p].did = pu[r].did) => pu[q].did = pu[p].did

\* C3: each event of a batch is evolved and then published before the
\* next one is evolved; a listener that receives Ei reads a state whose
\* latest folded event is Ei, with none of the later events of the batch.
PerEventProgression ==
    /\ \A n \in 1..Len(recv) :
          LET r == recv[n] IN
          r.event.type # "CommandValidationFailed" =>
              /\ r.read # <<>>
              /\ Last(r.read) = r.event
              /\ \A m \in 1..Len(r.read) :
                    r.read[m].k = r.event.k => r.read[m].idx <= r.event.idx
    /\ \A p \in Pos :
          (hist[p].op = "evolve" /\ hist[p].i > 1) =>
              \E q \in 1..(p - 1) : /\ hist[q].op = "publish"
                                    /\ hist[q].did = hist[p].did
                                    /\ hist[q].i = hist[p].i - 1
    /\ \A p \in Pos :
          (hist[p].op = "publish" /\ hist[p].i >= 1) =>
              /\ p > 1
              /\ hist[p - 1].op = "evolve"
              /\ hist[p - 1].did = hist[p].did
              /\ hist[p - 1].i = hist[p].i

SecondEventDelivered ==
    \E n \in 1..Len(recv) :
        /\ recv[n].unit = "A"
        /\ recv[n].event.type = "E2"
        /\ recv[n].event.idx = 2

\* C4: every event of the list decide returned is passed to evolve, folded
\* into the state and published exactly once, in list order.  (A batch on
\* which evolve itself throws is the abort of C9 and is not counted here.)
NoLostEvents ==
    \A d \in Dids :
        (/\ Returned(d)
         /\ Has("decide", d)
         /\ \A n \in 1..Len(Decided(d)) : Decided(d)[n].type # "Boom")
        => /\ EvolveCallsOf(d) = Decided(d)
           /\ FoldedOf(UnitOf(d), CmdOf(d).k) = Decided(d)
           /\ PublishedBy(d) = Decided(d)

\* The history from step p + 1 to the step that ends the delivery of the
\* value published at step p: the publishing call's next evolve, or its
\* return.
DeliveryEnd(p) ==
    CHOOSE r \in (p + 1)..Len(hist) :
        /\ hist[r].did = hist[p].did /\ hist[r].op \in {"evolve", "return"}
        /\ \A q \in (p + 1)..(r - 1) :
              ~(hist[q].did = hist[p].did /\ hist[q].op \in {"evolve", "return"})

\* The commands dispatched to unit target while the value published at
\* step p was being delivered
DispatchedDuring(p, target) ==
    MapSeq(SelectSeq(SubSeq(hist, p + 1, DeliveryEnd(p)),
                     LAMBDA e : e.op = "dispatch" /\ e.unit = target),
           LAMBDA e : e.val)

ReactionUnits(u) == {n \in 1..Len(listeners[u]) : listeners[u][n].kind = "pm"}

Invalid(d) == UnitOf(d) \in GenericUnits /\ CmdOf(d).bad # {}

\* C7: a command that fails the schema gets exactly one
\* CommandValidationFailed event, carrying the command's type tag and the
\* errors, published on the unit's channel; resolveContext, decide and
\* evolve are not called for it and none of its events is in the state.
ValidationFailure ==
    /\ [](\A d \in Dids :
          Invalid(d) =>
            /\ Len(PublishedBy(d)) = 1
            /\ PublishedBy(d)[1].type = "CommandValidationFailed"
            /\ PublishedBy(d)[1].payload.command = CmdOf(d).type
            /\ PublishedBy(d)[1].payload.errors = CmdOf(d).bad
            /\ StepOf("publish", d).unit = UnitOf(d)
            /\ ~Has("resolveContext", d) /\ ~Has("decide", d) /\ ~Has("evolve", d)
            /\ FoldedOf(UnitOf(d), CmdOf(d).k) = <<>>
            /\ \A n \in 1..Len(state[UnitOf(d)]) :
                  state[UnitOf(d)][n].type # "CommandValidationFailed"
            /\ promise[d] = "fulfilled")
    /\ [][\A d \in DOMAIN promise' :
            (users' # users /\ d = Len(promise) + 1 /\ Invalid(d)') => state' = state]_vars

InvalidDispatched ==
    \E d \in Dids : Invalid(d) /\ Returned(d) /\ state[UnitOf(d)] # <<>>

\* resolveContext threw, or the promise it returned was rejected
ContextFailed(d) ==
    \/ CmdOf(d).ctx \in {"throw", "reject"}
    \/ \E p \in Pos : hist[p].op = "settled" /\ hist[p].did = d /\ ~hist[p].val.ok

DecideThrew(d) == Has("decide", d) /\ StepOf("decide", d).val.threw

Aborted(d) ==
    /\ UnitOf(d) \in GenericUnits
    /\ ~Invalid(d)
    /\ ContextFailed(d) \/ DecideThrew(d)

\* Nothing in the command makes its processing stop early
Healthy(d) ==
    /\ UnitOf(d) \in GenericUnits
    /\ Has("decide", d) /\ ~DecideThrew(d)
    /\ \A n \in 1..Len(Decided(d)) : Decided(d)[n].type \notin {"Boom", "Bad"}

FullyProcessed(d) ==
    /\ PublishedBy(d) = Decided(d)
    /\ FoldedOf(UnitOf(d), CmdOf(d).k) = Decided(d)

\* The dispatch call d completes in this step
Returns(d) ==
    /\ d \in DOMAIN promise' /\ promise'[d] # "pending"
    /\ d \in DOMAIN promise => promise[d] = "pending"

\* C8: when resolveContext throws or rejects, or decide throws, the command
\* is aborted: no event of it is evolved or published, the unit's state is
\* unchanged, exactly one error trace entry is recorded, and later commands
\* of the unit are processed normally.
AbortOnThrow ==
    /\ [](\A d \in Dids :
            Aborted(d) =>
                /\ PublishedBy(d) = <<>>
                /\ EvolveCallsOf(d) = <<>>
                /\ FoldedOf(UnitOf(d), CmdOf(d).k) = <<>>
                /\ ContextFailed(d) => ~Has("decide", d)
                /\ Returned(d) => Len(ErrorsOf(d)) = 1
                /\ \A d2 \in Dids :
                      (d2 > d /\ UnitOf(d2) = UnitOf(d) /\ Healthy(d2) /\ Returned(d2))
                          => FullyProcessed(d2))
    /\ [][\A d \in DOMAIN promise' :
            (Returns(d) /\ Aborted(d)') => state' = state]_vars

AbortedThenProcessed ==
    \E d, d2 \in Dids :
        /\ Aborted(d) /\ Returned(d)
        /\ d2 > d /\ UnitOf(d2) = UnitOf(d)
        /\ Healthy(d2) /\ Returned(d2) /\ Len(Decided(d2)) = 2

\* evolve threw on an event of the batch of d (before any listener did)
EvolveThrew(d) ==
    /\ UnitOf(d) \in GenericUnits
    /\ Has("decide", d)
    /\ \E n \in 1..Len(Decided(d)) :
          /\ Decided(d)[n].type = "Boom"
          /\ \A m \in 1..(n - 1) : Decided(d)[m].type # "Bad"

\* The place in the batch of the event evolve threw on
ThrewAt(d) ==
    CHOOSE n \in 1..Len(Decided(d)) :
        /\ Decided(d)[n].type = "Boom"
        /\ \A m \in 1..(n - 1) : Decided(d)[m].type # "Boom"

\* C9: when evolve throws on Ek, E1..E(k-1) stay evolved and published,
\* Ek..En are neither folded nor published, the state is the value after
\* E(k-1), and one error trace entry is recorded.
EvolveAbort ==
    /\ [](\A d \in Dids :
            EvolveThrew(d) =>
                LET good == SubSeq(Decided(d), 1, ThrewAt(d) - 1) IN
                /\ PublishedBy(d) = good
                /\ FoldedOf(UnitOf(d), CmdOf(d).k) = good
                /\ EvolveCallsOf(d) = SubSeq(Decided(d), 1, ThrewAt(d))
                /\ Len(ErrorsOf(d)) = 1
                /\ ErrorsOf(d)[1].error = "evolve")
    /\ [][\A d \in DOMAIN promise' :
            (Returns(d) /\ EvolveThrew(d)') =>
                state'[UnitOf(d)'] =
                    state[UnitOf(d)'] \o SubSeq(Decided(d)', 1, ThrewAt(d)' - 1)]_vars

EvolveThrewMidBatch ==
    \E d \in Dids :
        /\ EvolveThrew(d) /\ ThrewAt(d) = 2 /\ Len(Decided(d)) = 3
        /\ Len(state[UnitOf(d)]) > 1

\* A listener of the channel threw while an event of d was delivered
ListenerThrew(d) ==
    /\ UnitOf(d) \in GenericUnits
    /\ Has("decide", d)
    /\ \E n \in 1..Len(Decided(d)) :
          /\ Decided(d)[n].type = "Bad"
          /\ \A m \in 1..(n - 1) : Decided(d)[m].type # "Boom"

\* C10: no failure crosses the dispatch boundary: the promise dispatch
\* returns is never rejected; a schema failure shows as the rejection
\* event, every other failure as one error trace entry, and commands
\* without a failure are processed whatever failed before them.
NoExceptionCrosses ==
    \A d \in Dids :
        /\ promise[d] # "rejected"
        /\ Returned(d) =>
              /\ Invalid(d) =>
                    /\ PublishedBy(d) = <<ValidationEvent(CmdOf(d))>>
                    /\ ErrorsOf(d) = <<>>
              /\ (Aborted(d) \/ EvolveThrew(d) \/ ListenerThrew(d)) =>
                    Len(ErrorsOf(d)) = 1
              /\ Healthy(d) => (FullyProcessed(d) /\ ErrorsOf(d) = <<>>)

ListenerThrewThenProcessed ==
    \E d1, d2 \in Dids :
        /\ d1 < d2
        /\ UnitOf(d1) = "A" /\ UnitOf(d2) = "A"
        /\ Returned(d1) /\ Returned(d2)
        /\ ListenerThrew(d1) /\ promise[d1] = "fulfilled"
        /\ Healthy(d2) /\ Len(Decided(d2)) = 2

\* dispatch call d is a CheckoutCart of an existing, non-empty cart
CheckedOut(d) ==
    /\ UnitOf(d) = "Cart"
    /\ CmdOf(d).type = "CheckoutCart"
    /\ Has("decide", d)
    /\ Decided(d) # <<>>
    /\ Decided(d)[1].type = "CartCheckedOut"

\* The CreateOrder command the checkout Reaction Unit dispatched for d
CreateOrderOf(d) ==
    DispatchedDuring(CHOOSE p \in Pos : hist[p].op = "publish" /\ hist[p].did = d,
                     "Order")[1]

CartGone(d, st) == CmdOf(d).payload.cartId \notin DOMAIN st["Cart"].carts

OrderThere(d, st) == CreateOrderOf(d).payload.orderId \in DOMAIN st["Order"].orders

\* C5 as claimed: at the moment dispatch(CheckoutCart) resolves, the cart
\* is gone from the Cart unit's state and the order of the cascaded
\* CreateOrder is in the Order unit's state.
CheckoutCascadeAtResolve ==
    [][\A d \in DOMAIN promise' :
         (Returns(d) /\ CheckedOut(d)') =>
             (CartGone(d, state)' /\ OrderThere(d, state)')]_vars

\* C5 as amended: at the moment dispatch(CheckoutCart) resolves, the cart
\* is gone and the cascaded CreateOrder is dispatched, its continuation
\* waiting in the microtask queue; when a caller awaiting the dispatch
\* resumes, the order is in the Order unit's state.
CheckoutCascade ==
    /\ [][\A d \in DOMAIN promise' :
            (Returns(d) /\ CheckedOut(d)') =>
                /\ CartGone(d, state)'
                /\ \E n \in 1..Len(microQ') :
                      /\ microQ'[n].kind = "cont"
                      /\ microQ'[n].unit = "Order"
                      /\ microQ'[n].cmd = CreateOrderOf(d)'
                /\ d \in awaited =>
                      \E n, m \in 1..Len(microQ') :
                          /\ n < m
                          /\ microQ'[n].unit = "Order"
                          /\ microQ'[n].cmd = CreateOrderOf(d)'
                          /\ microQ'[m] = CallerJob(d)]_vars
    /\ [](\A s \in seen : CheckedOut(s.did) => OrderThere(s.did, s.state))

CheckoutObserved ==
    \E s \in seen :
        /\ CheckedOut(s.did)
        /\ CartGone(s.did, s.state)
        /\ OrderThere(s.did, s.state)

-----------------------------------------------------------------------------
(* Reading the history of the System's calls *)

\* The place of the addDecider call that registered unit u; 0 for a unit
\* registered while the system was wired
RegPosIn(h, u) ==
    IF \E p \in DOMAIN h : h[p].op = "addDecider" /\ h[p].unit = u /\ ~h[p].val.threw
    THEN CHOOSE p \in DOMAIN h :
            h[p].op = "addDecider" /\ h[p].unit = u /\ ~h[p].val.threw
    ELSE 0

\* At place p of h the listener registered at place a is still subscribed:
\* no destroy was called between a and p
LiveIn(h, a, p) ==
    a < p /\ \A q \in DOMAIN h : (h[q].op = "destroy" /\ q < p) => q < a

\* The place of the first destroy after place a
LiveEnd(a) ==
    IF \E q \in Pos : hist[q].op = "destroy" /\ q > a
    THEN CHOOSE q \in Pos :
            /\ hist[q].op = "destroy" /\ q > a
            /\ \A r \in Pos : (hist[r].op = "destroy" /\ r > a) => q <= r
    ELSE Len(hist) + 1

\* The values published on channel ch strictly between places a and b
PubIn(ch, a, b) ==
    MapSeq(SelectSeq(SubSeq(hist, a + 1, b - 1),
                     LAMBDA e : e.op = "publish" /\ e.unit = ch),
           LAMBDA e : e.val)

\* The events of unit u the global channel carried, in order
GlobalOf(u) ==
    MapSeq(SelectSeq(hist, LAMBDA e : e.op = "publish" /\ e.unit = "all"
                                      /\ e.val.decider = u),
           LAMBDA e : e.val.event)

Destroyed == \E p \in Pos : hist[p].op = "destroy"

ProjectErrors == SelectSeq(traceLog, LAMBDA e : e.kind = "error" /\ e.phase = "project")

Count(seq, tag) == Len(SelectSeq(seq, LAMBDA e : e.type = tag))

\* The batch of dispatch call d holds an event on which "PA" and "PG" throw
ProjectorThrew(d) ==
    /\ UnitOf(d) = "A"
    /\ Has("decide", d)
    /\ \E n \in 1..Len(Decided(d)) : Decided(d)[n].type = "PBad"

\* C11: when project throws on an event, the builder's read-state is
\* unchanged by it, one error trace entry is recorded, the publishing
\* unit's state is as evolve left it, the rest of the batch is evolved and
\* published, and the other builders, the Reaction Unit and the other
\* listeners of the channel still process the event.  ("PA2" is registered
\* after the Reaction Unit; an "FBad" event, on which the filter throws,
\* does not reach it: C12.)
ProjectionIsolation ==
    LET seenA == PubIn("A", 0, LiveEnd(0))
        seenAll == PubIn("all", 0, LiveEnd(0))
    IN /\ readState["PA2"] = SelectSeq(seenA, LAMBDA e : e.type # "FBad")
       /\ readState["PA"] = SelectSeq(seenA, LAMBDA e : e.type # "PBad")
       /\ readState["PG"] = SelectSeq(seenAll, LAMBDA v : v.event.type # "PBad")
       /\ Len(ProjectErrors) =
              Count(seenA, "PBad") + Len(SelectSeq(seenAll, LAMBDA v : v.event.type = "PBad"))
       /\ \A d \in Dids :
             (ProjectorThrew(d) /\ Returned(d)) =>
                 (FullyProcessed(d) /\ ErrorsOf(d) = <<>>)
       /\ \A p \in 1..(LiveEnd(0) - 1) :
             (hist[p].op = "publish" /\ hist[p].unit = "A" /\ hist[p].val.type = "PBad") =>
                 /\ DispatchedDuring(p, "B") = react("Reactor", hist[p].val, clock).val
                 /\ \E n \in 1..Len(recv) :
                       /\ recv[n].unit = "A"
                       /\ recv[n].event = hist[p].val
                       /\ Last(recv[n].read) = hist[p].val

ProjectorThrewMidBatch ==
    \E d \in Dids :
        /\ ProjectorThrew(d) /\ Returned(d)
        /\ Len(ProjectErrors) = 2
        /\ Len(readState["PA2"]) = 3
        /\ Len(readState["PA"]) = 2
        /\ Last(readState["PA"]).type = "E2"

\* The batch of dispatch call d holds an event on which the Reaction Unit
\* throws, in its filter ("FBad") or in react ("RBad")
ReactionThrew(d) ==
    /\ UnitOf(d) = "A"
    /\ Has("decide", d)
    /\ \E n \in 1..Len(Decided(d)) : Decided(d)[n].type \in {"FBad", "RBad"}

\* C12: an exception of a Reaction Unit's filter or react is caught for that
\* event and recorded as an error trace entry of the Reaction Unit; the
\* whole batch is still evolved and published and the listeners registered
\* after the Reaction Unit still receive the event.
ReactionIsolation ==
    \A d \in Dids :
        (ReactionThrew(d) /\ Returned(d) /\ ~Destroyed) =>
            /\ FullyProcessed(d)
            /\ ErrorsOf(d) = <<>>
            /\ \E n \in 1..Len(traceLog) :
                  /\ traceLog[n].kind = "error"
                  /\ traceLog[n].phase = "process-manager"
                  /\ traceLog[n].event.k = CmdOf(d).k
            /\ \E n \in 1..Len(recv) :
                  /\ recv[n].unit = "A"
                  /\ recv[n].event.k = CmdOf(d).k
                  /\ recv[n].event.type \in {"FBad", "RBad"}

\* C14: addDecider raises an error exactly when the name was registered
\* before on this System, also after destroy, and the failed call changes
\* nothing: registry, units' states and subscriptions stay as they were.
UniqueNames ==
    /\ [](\A p \in Pos :
            hist[p].op = "addDecider" =>
                (hist[p].val.threw <=>
                    \/ hist[p].unit \in WiredSystem.deciders
                    \/ \E q \in 1..(p - 1) : /\ hist[q].op = "addDecider"
                                             /\ hist[q].unit = hist[p].unit))
    /\ [][(/\ Len(hist') = Len(hist) + 1
           /\ Last(hist').op = "addDecider"
           /\ Last(hist').unit \in deciders)
          => /\ Last(hist').val.threw
             /\ UNCHANGED <<state, traceLog, listeners, microQ, waiting, promise,
                            awaited, clock, recv, seen, deciders, cleanups,
                            readState, stored>>]_vars

DuplicateAfterDestroy ==
    \E p, q \in Pos :
        /\ p < q
        /\ hist[p].op = "destroy"
        /\ hist[q].op = "addDecider" /\ hist[q].val.threw
        /\ state[hist[q].unit] # <<>>

\* C15 as claimed: every event published on a registered unit's channel is
\* on the global channel exactly once, tagged with the unit's name, in the
\* unit's publication order.
GlobalFanInAlways ==
    \A u \in deciders : GlobalOf(u) = PubIn(u, 0, Len(hist) + 1)

\* C15 as amended: the same for the events a unit publishes from its
\* registration until destroy is called.
GlobalFanIn ==
    /\ \A u \in deciders :
          GlobalOf(u) = PubIn(u, RegPosIn(hist, u), LiveEnd(RegPosIn(hist, u)))
    /\ \A p \in Pos :
          (hist[p].op = "publish" /\ hist[p].unit = "all") => hist[p].val.decider \in deciders

GlobalCarriesAll ==
    /\ \E n \in 1..Len(GlobalOf("A")) : GlobalOf("A")[n].type = "CommandValidationFailed"
    /\ Len(GlobalOf("A")) >= 2
    /\ GlobalOf("B") # <<>>

\* The steps the history gained in this step
NewSteps == (Len(hist) + 1)..Len(hist')

\* C17 as claimed: once destroy was called, no read-state changes, the
\* trace log does not change, nothing is emitted on the global channel, no
\* Reaction Unit dispatches, and a further destroy changes nothing.
TeardownForGood ==
    [][Destroyed =>
         /\ readState' = readState
         /\ traceLog' = traceLog
         /\ \A p \in NewSteps :
               /\ ~(hist'[p].op = "publish" /\ hist'[p].unit = "all")
               /\ ~(hist'[p].op = "dispatch" /\ hist'[p].unit = "B")
               /\ hist'[p].op = "destroy" => listeners' = listeners]_vars

\* C17 as amended: the same for the listeners registered before the destroy
\* call; a unit registered after it is forwarded until the next destroy.
Teardown ==
    [][Destroyed =>
         /\ readState' = readState
         /\ traceLog' = traceLog
         /\ \A p \in NewSteps :
               /\ (hist'[p].op = "publish" /\ hist'[p].unit = "all") =>
                      LiveIn(hist', RegPosIn(hist', hist'[p].val.decider), p)
               /\ ~(hist'[p].op = "dispatch" /\ hist'[p].unit = "B")
               /\ (hist'[p].op = "destroy" /\ ~LiveIn(hist, RegPosIn(hist, "C"), p)) =>
                      UNCHANGED <<state, traceLog, listeners, microQ, waiting, promise,
                                  awaited, clock, recv, seen, deciders, cleanups,
                                  readState, stored>>]_vars

DestroyedThenPublished ==
    \E q, p, r \in Pos :
        /\ q < p /\ p < r
        /\ hist[q].op = "destroy"
        /\ hist[p].op = "publish" /\ hist[p].unit = "A"
        /\ hist[r].op = "destroy"
        /\ state["A"] # <<>>

\* The events passed to evolve of unit u in this step, in order
NewEvolved(u) ==
    MapSeq(SelectSeq(SubSeq(hist', Len(hist) + 1, Len(hist')),
                     LAMBDA e : e.op = "evolve" /\ e.unit = u),
           LAMBDA e : e.val)

\* st after folding evs with evolve of unit u; a throw of evolve leaves st
RECURSIVE Fold(_, _, _)
Fold(u, st, evs) ==
    IF evs = <<>> THEN st
    ELSE LET r == evolve(u, st, Head(evs), clock)
         IN Fold(u, IF r.ok THEN r.val ELSE st, Tail(evs))

\* C13: a unit's state changes only in the evolve step of its own dispatch:
\* in every step the new state of a unit is its old state folded with the
\* events its dispatch passed to evolve in that step.
SingleWriter ==
    [][\A u \in Units : state'[u] = Fold(u, state[u], NewEvolved(u))]_vars

\* The trace entries emitted so far, oldest first
Emitted == MapSeq(SelectSeq(hist, LAMBDA e : e.op = "trace"), LAMBDA e : e.val)

\* C16: the trace log never holds more than 200 entries; it is the most
\* recent entries emitted, latest first: all of them up to 200, after that
\* exactly the 200 latest.
BoundedTraceLog ==
    /\ Len(traceLog) <= TRACE_LIMIT
    /\ Len(traceLog) = Min(Len(Emitted), TRACE_LIMIT)
    /\ \A i \in 1..Len(traceLog) : traceLog[i] = Emitted[Len(Emitted) + 1 - i]

OldestEvicted ==
    /\ Len(Emitted) > TRACE_LIMIT + 2
    /\ Len(traceLog) = TRACE_LIMIT
    /\ traceLog[1] = Last(Emitted)
    /\ \A i \in 1..Len(traceLog) : traceLog[i] # Emitted[1] /\ traceLog[i] # Emitted[3]

\* The places of the calls of emit / of the returns of emit
EmitCalls == {p \in Pos : hist[p].op = "emit"}

\* The place where the emit called at place p returned or threw
EmitEnd(p) ==
    CHOOSE q \in Pos : q > p /\ hist[q].op = "emitted" /\ hist[q].val.value = hist[p].val.value

\* The names of the listeners invoked with value v, in order
DeliveredTo(v) ==
    MapSeq(SelectSeq(hist, LAMBDA e : e.op = "deliver" /\ e.val.value = v),
           LAMBDA e : e.val.listener)

InSeq(x, seq) == \E i \in 1..Len(seq) : seq[i] = x

\* C18: an emit that returns has invoked every listener registered when it
\* was called exactly once with the value, before it returned, in
\* registration order.
EmitDelivery ==
    \A p \in EmitCalls :
        ~hist[EmitEnd(p)].val.threw =>
            LET v == hist[p].val.value
                reg == hist[p].val.registered
            IN /\ SelectSeq(DeliveredTo(v), LAMBDA n : InSeq(n, reg)) = reg
               /\ \A q \in Pos :
                     (hist[q].op = "deliver" /\ hist[q].val.value = v) =>
                         (p < q /\ q < EmitEnd(p))

\* C19: a value is delivered only to listeners that were registered when
\* its emit was called.
SnapshotSemantics ==
    \A p \in EmitCalls :
        \A n \in 1..Len(DeliveredTo(hist[p].val.value)) :
            InSeq(DeliveredTo(hist[p].val.value)[n], hist[p].val.registered)

\* C20: when emit(v2) is called during the delivery of v1 on the same
\* channel, no listener receives v2 before every listener has received v1.
SerialEmission ==
    \A p1, p2 \in EmitCalls :
        (p1 < p2 /\ p2 < EmitEnd(p1) /\ ~hist[EmitEnd(p1)].val.threw) =>
            \A q1, q2 \in Pos :
                (/\ hist[q1].op = "deliver" /\ hist[q1].val.value = hist[p1].val.value
                 /\ hist[q2].op = "deliver" /\ hist[q2].val.value = hist[p2].val.value)
                => q1 < q2

-----------------------------------------------------------------------------
(* The unsubscribe closure *)

\* The calls of subscribe (op "subscribe") or of an unsubscribe closure (op
\* "unsubscribe") for the listener named n
CallsFor(op, n) == {p \in Pos : hist[p].op = op /\ hist[p].val.listener = n}

\* s without the entries equal to x
Except(s, x) == SelectSeq(s, LAMBDA y : y # x)

\* C21: once the unsubscribe closure of a listener was called, no emit
\* invokes the listener (until it is subscribed again); every call of the
\* closure, the first or a repeated one, raises no error and leaves the
\* channel's other listeners registered, in their order.
UnsubscribeRemoves ==
    /\ \A q \in Pos :
          hist[q].op = "deliver" =>
              \A p \in CallsFor("unsubscribe", hist[q].val.listener) :
                  p < q => \E r \in CallsFor("subscribe", hist[q].val.listener) :
                              p < r /\ r < q
    /\ \A p \in Pos :
          hist[p].op = "unsubscribe" =>
              /\ ~hist[p].val.threw
              /\ hist[p].val.after = Except(hist[p].val.before, hist[p].val.listener)

\* "R1" was unsubscribed by the caller and again by the listener "Rm"
\* during an emit that was delivered to "Rm" and not to "R1"
UnsubscribedTwice ==
    \E p, q \in CallsFor("unsubscribe", "R1"), e \in EmitCalls :
        /\ p < e /\ e < q /\ q < EmitEnd(e)
        /\ hist[p].val.by = "caller" /\ hist[q].val.by = "Rm"
        /\ ~InSeq("R1", hist[q].val.before)
        /\ CallsFor("subscribe", "R1") # {}
        /\ DeliveredTo(hist[e].val.value) = <<"Rm">>

-----------------------------------------------------------------------------
(* Filtered channels *)

\* The values listener n received after place a, in order
ReceivedBy(n, a) ==
    MapSeq(SelectSeq(SubSeq(hist, a + 1, Len(hist)),
                     LAMBDA e : e.op = "deliver" /\ e.val.listener = n),
           LAMBDA e : e.val.value)

\* The values emitted on channel ch after place a, in the order of the calls
EmittedOn(ch, a) ==
    MapSeq(SelectSeq(SubSeq(hist, a + 1, Len(hist)),
                     LAMBDA e : e.op = "emit" /\ e.unit = ch),
           LAMBDA e : e.val.value)

\* The place of the first subscribe call for listener n
SubscribedAt(n) ==
    CHOOSE p \in CallsFor("subscribe", n) : \A q \in CallsFor("subscribe", n) : p <= q

\* C22: a listener of filtered = bus.filter(p1) receives the values emitted
\* on bus since it subscribed that satisfy p1, each once, in the order of
\* the emit calls; a listener of filtered2 = filtered.filter(p2) the same
\* for the values that satisfy p1 and p2.
FilteredChannel ==
    /\ CallsFor("subscribe", "D1") # {} =>
          ReceivedBy("D1", SubscribedAt("D1")) =
              SelectSeq(EmittedOn("bus", SubscribedAt("D1")),
                        LAMBDA v : predicate("p1", v))
    /\ CallsFor("subscribe", "DD1") # {} =>
          ReceivedBy("DD1", SubscribedAt("DD1")) =
              SelectSeq(EmittedOn("bus", SubscribedAt("DD1")),
                        LAMBDA v : predicate("p1", v) /\ predicate("p2", v))

-----------------------------------------------------------------------------
(* Completion of a dispatch call *)

\* The place in the history where dispatch call d returned
ReturnPos(d) == CHOOSE p \in Pos : hist[p].op = "return" /\ hist[p].did = d

\* C23: when the promise of a dispatch call has resolved, every event
\* decide returned for the command has been passed to evolve, folded into
\* the unit's state and published on the unit's channel, and no evolve or
\* publish step of the call comes after its return.  (A batch on which
\* evolve itself throws is the abort of C9 and is not counted here.)
CausalityAtResolve ==
    \A d \in Dids :
        (/\ Returned(d)
         /\ Has("decide", d)
         /\ \A n \in 1..Len(Decided(d)) : Decided(d)[n].type # "Boom")
        => /\ \A n \in 1..Len(Decided(d)) :
                 \E p, q \in 1..ReturnPos(d) :
                     /\ p < q
                     /\ hist[p] = Step("evolve", UnitOf(d), d, n, Decided(d)[n])
                     /\ hist[q] = Step("publish", UnitOf(d), d, n, Decided(d)[n])
           /\ \A n \in 1..Len(Decided(d)) :
                 \E m \in 1..Len(state[UnitOf(d)]) : state[UnitOf(d)][m] = Decided(d)[n]
           /\ \A p \in Pos :
                 (hist[p].did = d /\ hist[p].op \in {"evolve", "publish"})
                     => p < ReturnPos(d)

\* When the promise of a dispatch call has resolved, the call has evolved
\* and published a prefix of the decided events and does nothing later.
PrefixAtResolve ==
    \A d \in Dids :
        (Returned(d) /\ Has("decide", d))
        => /\ \E n \in 0..Len(Decided(d)) :
                 /\ PublishedBy(d) = SubSeq(Decided(d), 1, n)
                 /\ EvolveCallsOf(d) \in {SubSeq(Decided(d), 1, n)} \cup
                        {SubSeq(Decided(d), 1, m) : m \in {n + 1} \cap 1..Len(Decided(d))}
           /\ \A p \in Pos :
                 (hist[p].did = d /\ hist[p].op \in {"evolve", "publish"})
                     => p < ReturnPos(d)

\* The context promise of dispatch call d never settles
Stuck(d) == CmdOf(d).ctx = "never"

\* Dispatch call d reached decide, evolve or publish
Processed(d) ==
    \E p \in Pos : hist[p].did = d /\ hist[p].op \in {"decide", "evolve", "publish"}

\* C24: a command whose context resolution never completes blocks its unit:
\* no command dispatched later on the same unit is decided, evolved or
\* published.
StuckContextBlocks ==
    \A d1, d2 \in Dids :
        (d1 < d2 /\ Stuck(d1) /\ UnitOf(d1) = UnitOf(d2)) => ~Processed(d2)

-----------------------------------------------------------------------------
(* The counter and todo examples *)

\* The events decide returned in this step for a command of unit u, with the
\* command: the "decide" steps the history gained
NewDecisions(u) ==
    {[cmd |-> CmdOf(hist'[p].did), events |-> hist'[p].val.events] :
        p \in {q \in NewSteps : hist'[q].op = "decide" /\ hist'[q].unit = u}}

BelowZero ==
    <<[type |-> "CounterCommandFailed",
       payload |-> [command |-> "Decrement", reason |-> "Cannot go below zero"]]>>

\* C25: the counter's value is never negative, and a Decrement whose amount
\* is greater than the value decide reads gets exactly one
\* CounterCommandFailed event with reason 'Cannot go below zero' and leaves
\* the counter's state as it was.
CounterNeverNegative ==
    /\ [](state["Counter"].value >= 0)
    /\ [][\A n \in NewDecisions("Counter") :
             (n.cmd.type = "Decrement" /\ n.cmd.payload.amount > state["Counter"].value)
                 => n.events = BelowZero /\ state'["Counter"] = state["Counter"]]_vars

\* Decrement(5) was rejected at value 3 and Decrement(2) was accepted
DecrementRejected ==
    /\ state["Counter"].value = 1
    /\ state["Counter"].clicks = 2
    /\ \E d \in Dids : /\ CmdOf(d) = Cmd("Decrement", [amount |-> 5])
                       /\ Has("decide", d)
                       /\ Decided(d) = BelowZero
                       /\ \E e \in Dids : e > d /\ Has("decide", e)
                                         /\ CmdOf(e) = Cmd("Decrement", [amount |-> 2])

\* The dispatch calls of valid Increment commands
Increments == {d \in Dids : CmdOf(d).type = "Increment" /\ CounterSafeParse(CmdOf(d))}

RECURSIVE SumAmounts(_)
SumAmounts(ds) ==
    IF ds = {} THEN 0
    ELSE LET d == CHOOSE x \in ds : TRUE
         IN CmdOf(d).payload.amount + SumAmounts(ds \ {d})

\* Every continuation has run
Quiescent == microQ = <<>> /\ waiting = {}

\* C26: valid Increment commands dispatched back to back are each processed
\* once; processing Increment(a) adds a to the value and one to the count of
\* the Read Model Builder that counts Incremented events; so after n
\* Increments a1..an and nothing else the value is a1 + ... + an and the
\* count is n.
IncrementsAccumulate ==
    /\ [][\A n \in NewDecisions("Counter") :
             n.cmd.type = "Increment" =>
                 /\ state'["Counter"].value = state["Counter"].value + n.cmd.payload.amount
                 /\ readState'["IncCount"] = readState["IncCount"] + 1]_vars
    /\ [](Quiescent =>
             /\ \A d \in Increments :
                   Len(SelectSeq(hist, LAMBDA e : e.op = "decide" /\ e.did = d)) = 1
             /\ readState["IncCount"] = Cardinality(Increments)
             /\ Increments = Dids => state["Counter"].value = SumAmounts(Increments))

\* Increment(3) and Increment(4) were dispatched before either was
\* decided, and both have been processed
TwoIncrementsProcessed ==
    /\ Quiescent
    /\ Len(promise) = 2
    /\ Increments = {1, 2}
    /\ CmdOf(1).payload.amount = 3 /\ CmdOf(2).payload.amount = 4
    /\ \E p, q \in Pos : /\ hist[p].op = "dispatch" /\ hist[p].did = 2
                         /\ hist[q].op = "decide" /\ hist[q].did = 1
                         /\ p < q
    /\ state["Counter"].value = 7
    /\ readState["IncCount"] = 2

\* decide rejected the command: its only event is the todo unit's failure event
Rejected(events) == Len(events) = 1 /\ events[1].type = "TodoCommandFailed"

\* C27: a command the todo unit's rules reject gets exactly one rejection
\* event and leaves the state as it was; dispatched again right after, it
\* gets the same single rejection event, with the same reason.
IdempotentRejection ==
    /\ [][\A n \in NewDecisions("Todo") :
             Rejected(n.events) => state'["Todo"] = state["Todo"]]_vars
    /\ [](\A d \in Dids :
             (/\ d + 1 \in Dids
              /\ CmdOf(d + 1) = CmdOf(d)
              /\ Has("decide", d) /\ Has("decide", d + 1)
              /\ Rejected(Decided(d)))
             => Decided(d + 1) = Decided(d))

\* CompleteTodo was dispatched three times in a row on an Active todo: the
\* second and the third were rejected with 'Todo is not active'
CompletedThrice ==
    /\ Len(promise) = 4
    /\ Quiescent
    /\ \A d \in 2..4 : CmdOf(d) = Cmd("CompleteTodo", [id |-> "t1"])
    /\ Decided(2)[1].type = "TodoCompleted"
    /\ \A d \in 3..4 : Decided(d) = Failed("TodoCommandFailed", CmdOf(d), "Todo is not active")
    /\ state["Todo"].todos["t1"].status.kind = "Completed"

-----------------------------------------------------------------------------
(* Replaying the events of a unit *)

\* The events passed to evolve of unit u so far, in order
EvolvedOf(u) ==
    MapSeq(SelectSeq(hist, LAMBDA e : e.op = "evolve" /\ e.unit = u), LAMBDA e : e.val)

\* st after folding evs with evolve of unit u while Date.now() is now
RECURSIVE FoldAt(_, _, _, _)
FoldAt(u, st, evs, now) ==
    IF evs = <<>> THEN st
    ELSE FoldAt(u, evolve(u, st, Head(evs), now).val, Tail(evs), now)

\* C28: for every decider of the repository, folding the events the unit
\* has evolved so far from its initial state gives the same final state
\* whenever it is done.
DeterministicEvolution ==
    \A u \in EcommerceUnits \cup ExampleUnits :
        \A now1, now2 \in 1..MaxClock :
            FoldAt(u, initialState(u), EvolvedOf(u), now1)
                = FoldAt(u, initialState(u), EvolvedOf(u), now2)

-----------------------------------------------------------------------------
(* Cascades *)

\* Number of steps op of dispatch call d
Times(op, d) == Len(SelectSeq(hist, LAMBDA e : e.op = op /\ e.did = d))

\* Every dispatch call is decided and completed at most once, and when
\* nothing is pending or in flight every call has been decided and completed.
ProcessedOnce ==
    \A d \in Dids :
        /\ Times("decide", d) <= 1
        /\ Times("return", d) <= 1
        /\ Quiescent => Times("decide", d) = 1 /\ Times("return", d) = 1

\* Every published event made each Reaction Unit of its unit dispatch the
\* commands react returns for it, once each, and nothing else.
ReactedOnce ==
    \A p \in Pos :
        (hist[p].op = "publish" /\ hist[p].unit \in EcommerceUnits) =>
            \A n \in ReactionUnits(hist[p].unit) :
                LET l == listeners[hist[p].unit][n] IN
                \E now \in 0..MaxClock :
                    DispatchedDuring(p, l.target) =
                        IF filter(l.name, hist[p].val)
                        THEN react(l.name, hist[p].val, now).val
                        ELSE <<>>

\* C29: in the ecommerce system, whose Reaction Units lead from Cart to
\* Order and from Order to Catalog and whose contexts all resolve, the
\* system becomes quiescent again and again, every reaction dispatches the
\* commands it returned once each, and every command dispatched is
\* processed exactly once.
CascadeTermination ==
    /\ []<>Quiescent
    /\ [](ProcessedOnce /\ ReactedOnce)

\* A checkout cascaded into an order and the order into a stock adjustment,
\* and everything has been processed.
CascadeCompleted ==
    /\ Quiescent
    /\ \E d1, d2, d3 \in Dids :
          /\ CheckedOut(d1)
          /\ UnitOf(d2) = "Order" /\ CmdOf(d2) = CreateOrderOf(d1)
          /\ UnitOf(d3) = "Catalog" /\ CmdOf(d3).type = "AdjustStock"
          /\ Times("decide", d3) = 1

\* dispatch call d decided a "Trig" event
Triggered(d) ==
    /\ Has("decide", d)
    /\ \E n \in 1..Len(Decided(d)) : Decided(d)[n].type = "Trig"

\* The number of reactions that led to dispatch call d
Depth(d) == CmdOf(d).k

\* C30: with Reaction Units wired in a cycle between A and B, every command
\* that decides a qualifying event has made the Reaction Unit of its unit
\* dispatch the next command to the other unit, however deep the cascade
\* is, so that once such a command is dispatched a continuation is pending
\* at every moment.
CycleNeverStops ==
    /\ \A d \in Dids :
          Triggered(d) =>
              \E e \in Dids : /\ e > d
                              /\ UnitOf(e) # UnitOf(d)
                              /\ Depth(e) = Depth(d) + 1
    /\ (\E d \in Dids : "Trig" \in {CmdOf(d).evs[n] : n \in 1..Len(CmdOf(d).evs)})
          => microQ # <<>>

\* One dispatch by the caller has cascaded through both units up to the
\* number of dispatch calls the model follows.
CascadeAtCap ==
    /\ users = 1
    /\ Len(promise) = MaxCascade
    /\ Depth(MaxCascade) = MaxCascade - 1
    /\ \A d \in 1..(MaxCascade - 1) : Triggered(d) /\ UnitOf(d) # UnitOf(d + 1)

-----------------------------------------------------------------------------
(* Empty decisions *)

\* The error entries of a trace log
Errors(log) == SelectSeq(log, LAMBDA e : e.kind = "error")

\* decide returns the empty list in this step
DecidesNothing ==
    \E p \in NewSteps : /\ hist'[p].op = "decide"
                        /\ ~hist'[p].val.threw
                        /\ hist'[p].val.events = <<>>

\* C31: the step in which decide returns the empty list for a command
\* leaves the state of every unit and the read-state of every projector
\* unchanged, publishes nothing on a unit's channel or on the global
\* channel, delivers nothing to a listener, dispatches no command and
\* records no error in the trace log.
EmptyDecisionNoOp ==
    [][DecidesNothing =>
         /\ state' = state
         /\ readState' = readState
         /\ recv' = recv
         /\ Errors(traceLog') = Errors(traceLog)
         /\ \A p \in NewSteps : hist'[p].op \notin {"evolve", "publish", "dispatch"}]_vars

\* A command with an empty decision was processed after commands that
\* changed the state and the read-states, and completed.
EmptyDecided ==
    \E d \in Dids :
        /\ Has("decide", d) /\ ~DecideThrew(d) /\ Decided(d) = <<>>
        /\ Returned(d)
        /\ state["A"] # <<>>
        /\ readState["PA"] # <<>>
        /\ readState["PG"] # <<>>

-----------------------------------------------------------------------------
(* The state decide reads *)

\* The evolve steps before step q on unit u that returned a state
EvolvedBefore(q, u) ==
    Len(SelectSeq(SubSeq(hist, 1, q - 1),
                  LAMBDA e : e.op = "evolve" /\ e.unit = u /\ e.val.type # "Boom"))

\* C32: when decide runs for a command of a generic unit, every other
\* command of that unit whose batch has begun to be evolved has completed
\* (its batch fully applied or aborted), and the state decide reads holds
\* exactly the events evolved on the unit so far.
BatchConsistentDecide ==
    \A q \in Pos :
        (hist[q].op = "decide" /\ hist[q].unit \in GenericUnits) =>
            /\ \A p \in 1..(q - 1) :
                  (hist[p].op = "evolve" /\ hist[p].unit = hist[q].unit
                   /\ hist[p].did # hist[q].did) =>
                      \E r \in (p + 1)..(q - 1) :
                          hist[r].op = "return" /\ hist[r].did = hist[p].did
            /\ \A n \in 1..Len(hist[q].val.events) :
                  hist[q].val.events[n].at = EvolvedBefore(q, hist[q].unit)

\* A listener dispatched a command back to unit A while a batch of A was
\* partly evolved, and the command was decided after the batch.
DispatchedMidBatch ==
    \E p, q, r, t \in Pos :
        /\ p < q /\ q < r /\ r < t
        /\ hist[p].op = "evolve" /\ hist[p].unit = "A" /\ hist[p].i = 1
        /\ hist[q].op = "dispatch" /\ hist[q].unit = "A"
        /\ hist[r].op = "evolve" /\ hist[r].unit = "A" /\ hist[r].did = hist[p].did
        /\ hist[r].i = 2
        /\ hist[t].op = "decide" /\ hist[t].did = hist[q].did
        /\ hist[t].val.events # <<>>

-----------------------------------------------------------------------------
(* Cascaded commands *)

\* The dispatch steps made by a Reaction Unit while the event published at
\* step p by a command of a unit was being delivered
CascadedFrom(p) ==
    {q \in (p + 1)..DeliveryEnd(p) : hist[q].op = "dispatch"}

\* The publish steps of the commands of the units
Publishes == {p \in Pos : hist[p].op = "publish" /\ hist[p].did # 0}

\* The steps that decide the command dispatched at step q or evolve one of
\* its events
WorkOn(q) == {t \in Pos : hist[t].did = hist[q].did /\ hist[t].op \in {"decide", "evolve"}}

\* C33 as claimed: a command a Reaction Unit dispatched in reaction to an
\* event of a source batch is decided, and changes the state of its target
\* unit, only after the last event of the source batch has been evolved and
\* published.
DeferredUntilLastEvent ==
    \A p \in Publishes :
        \A q \in CascadedFrom(p) :
            \A t \in WorkOn(q) :
                \E r \in 1..(t - 1) :
                    /\ hist[r].op = "publish" /\ hist[r].did = hist[p].did
                    /\ hist[r].i = Len(Decided(hist[p].did))

\* C33 as amended: ... only after the source's dispatch loop has finished,
\* be it with the last event published or with the batch aborted.
DeferredUntilLoopEnd ==
    \A p \in Publishes :
        \A q \in CascadedFrom(p) :
            \A t \in WorkOn(q) :
                \E r \in 1..(t - 1) : hist[r].op = "return" /\ hist[r].did = hist[p].did

\* Both Reaction Units reacted to the first event of a batch, and the
\* commands they dispatched to A and to B were evolved after the batch.
CascadeDeferred ==
    \E p \in Publishes :
        /\ hist[p].i = 1 /\ Len(Decided(hist[p].did)) >= 2
        /\ \E q \in CascadedFrom(p) :
              hist[q].unit = "A" /\ \E t \in WorkOn(q) : hist[t].op = "evolve"
        /\ \E q \in CascadedFrom(p) :
              hist[q].unit = "B" /\ \E t \in WorkOn(q) : hist[t].op = "evolve"

-----------------------------------------------------------------------------
(* Which dispatch a change belongs to *)

\* The publish steps of h during whose delivery step q of h was made
EnclosingIn(h, q) ==
    {p \in 1..(q - 1) :
        /\ h[p].op = "publish" /\ h[p].did # 0
        /\ \A r \in (p + 1)..(q - 1) :
              ~(h[r].did = h[p].did /\ h[r].op \in {"evolve", "return"})}

\* The dispatch call by caller code that dispatch call d of history h
\* cascaded from (d itself when the caller made it)
RECURSIVE RootIn(_, _)
RootIn(h, d) ==
    LET q == CHOOSE q \in 1..Len(h) : h[q].op = "dispatch" /\ h[q].did = d
        E == EnclosingIn(h, q)
    IN IF E = {} THEN d
       ELSE RootIn(h, h[CHOOSE m \in E : \A e \in E : e <= m].did)

\* The Reaction Units wired so far, as pairs of source and target
Wires == {<<cleanups[i].ch, cleanups[i].l.target>> :
             i \in {j \in 1..Len(cleanups) : cleanups[j].l.kind = "pm"}}

\* A chain of at most n Reaction Units leads from x to y
RECURSIVE ReachesIn(_, _, _)
ReachesIn(x, y, n) ==
    /\ n > 0
    /\ \/ <<x, y>> \in Wires
       \/ \E z \in Units : <<x, z>> \in Wires /\ ReachesIn(z, y, n - 1)

Reaches(x, y) == ReachesIn(x, y, Cardinality(Units))

\* The unit caller code dispatched to in the call that dispatch call d of
\* history h cascaded from
RootUnitIn(h, d) ==
    h[CHOOSE q \in 1..Len(h) : h[q].op = "dispatch" /\ h[q].did = RootIn(h, d)].unit

\* The channels projector name was subscribed to
SourcesOf(name) ==
    {cleanups[i].ch : i \in {j \in 1..Len(cleanups) :
                                /\ cleanups[j].l.kind = "projector"
                                /\ cleanups[j].l.name = name}}

\* C34: the state of a unit Y changes only in a step of a dispatch call
\* that caller code made on Y or on a unit from which a chain of Reaction
\* Units leads to Y, and the read-state of a projector changes only in a
\* step that publishes on a channel the projector is subscribed to, unless
\* it is subscribed to the global channel.
CrossUnitFrame ==
    [][/\ \A y \in Units :
            state'[y] # state[y] =>
                \E p \in NewSteps :
                    /\ hist'[p].op = "evolve" /\ hist'[p].unit = y
                    /\ \/ RootUnitIn(hist', hist'[p].did) = y
                       \/ Reaches(RootUnitIn(hist', hist'[p].did), y)
       /\ \A n \in Projectors :
            readState'[n] # readState[n] =>
                \/ "all" \in SourcesOf(n)
                \/ \E p \in NewSteps : /\ hist'[p].op = "publish"
                                       /\ hist'[p].unit \in SourcesOf(n)]_vars

\* A command dispatched to C was evolved, a command dispatched to A
\* cascaded into B, and the projector of the global channel has seen more
\* events than the projector of A.
FrameExercised ==
    /\ state["C"] # <<>>
    /\ \E d \in Dids : /\ UnitOf(d) = "B" /\ Has("evolve", d)
                       /\ RootUnitIn(hist, d) = "A"
    /\ readState["PA"] # <<>>
    /\ Len(readState["PG"]) > Len(readState["PA"])

-----------------------------------------------------------------------------
(* Checking out twice *)

DispatchPos(d) == CHOOSE q \in Pos : hist[q].op = "dispatch" /\ hist[q].did = d

\* d1 and d2 are CheckoutCart commands of one cart, and caller code
\* dispatched d2 right after d1
BackToBack(d1, d2) ==
    /\ UnitOf(d1) = "Cart" /\ UnitOf(d2) = "Cart"
    /\ CmdOf(d1).type = "CheckoutCart" /\ CmdOf(d2) = CmdOf(d1)
    /\ DispatchPos(d2) = DispatchPos(d1) + 2
    /\ hist[DispatchPos(d1) + 1].op = "resolveContext"

\* The CreateOrder commands dispatched while dispatch call d published
OrdersOf(d) ==
    {q \in Pos : /\ hist[q].op = "dispatch" /\ hist[q].unit = "Order"
                 /\ hist[q].val.type = "CreateOrder"
                 /\ \E p \in Publishes : hist[p].did = d /\ q \in CascadedFrom(p)}

\* A CheckoutCart of a cart that is in the state with an item is decided in
\* this step
DecidesCheckout(d) ==
    /\ \E p \in NewSteps : hist'[p].op = "decide" /\ hist'[p].did = d
    /\ hist'[CHOOSE q \in 1..Len(hist') :
                hist'[q].op = "dispatch" /\ hist'[q].did = d].val.type = "CheckoutCart"
    /\ LET c == hist'[CHOOSE q \in 1..Len(hist') :
                        hist'[q].op = "dispatch" /\ hist'[q].did = d].val.payload.cartId
       IN c \in DOMAIN state["Cart"].carts /\ state["Cart"].carts[c].items # <<>>

\* C35: a CheckoutCart decided while its cart is in the state with an item
\* publishes one CartCheckedOut event and makes the checkout Reaction Unit
\* dispatch one CreateOrder; a second CheckoutCart of the same cart
\* dispatched right after it publishes one CartCommandFailed event with
\* reason cart-not-found and causes no CreateOrder.
DoubleCheckout ==
    /\ [][\A d \in DOMAIN promise' :
            DecidesCheckout(d) =>
                /\ Len(SelectSeq(SubSeq(hist', Len(hist) + 1, Len(hist')),
                                 LAMBDA e : e.op = "publish" /\ e.unit = "Cart"
                                            /\ e.val.type = "CartCheckedOut")) = 1
                /\ Len(SelectSeq(SubSeq(hist', Len(hist) + 1, Len(hist')),
                                 LAMBDA e : e.op = "dispatch" /\ e.unit = "Order"
                                            /\ e.val.type = "CreateOrder")) = 1]_vars
    /\ [](\A d1, d2 \in Dids :
            (BackToBack(d1, d2) /\ CheckedOut(d1) /\ Returned(d2)) =>
                /\ PublishedBy(d1) = Decided(d1) /\ Len(Decided(d1)) = 1
                /\ Decided(d2) = Failed("CartCommandFailed", CmdOf(d2), "cart-not-found")
                /\ PublishedBy(d2) = Decided(d2)
                /\ Cardinality(OrdersOf(d1)) = 1
                /\ OrdersOf(d2) = {})

\* A filled cart was checked out twice in a row, both calls have completed
\* and the one order is in the Order unit's state.
CheckedOutTwice ==
    \E d1, d2 \in Dids :
        /\ BackToBack(d1, d2) /\ CheckedOut(d1) /\ Returned(d2)
        /\ Quiescent
        /\ Cardinality(DOMAIN state["Order"].orders) = 1

-----------------------------------------------------------------------------
(* The life of an order *)

\* The changes of status the Order unit makes
Lifecycle ==
    {<<"Pending", "PaymentProcessing">>,
     <<"PaymentProcessing", "Confirmed">>, <<"PaymentProcessing", "PaymentFailed">>,
     <<"Confirmed", "Shipped">>, <<"Shipped", "Delivered">>,
     <<"Pending", "Cancelled">>, <<"PaymentFailed", "Cancelled">>,
     <<"Confirmed", "Refunded">>, <<"Shipped", "Refunded">>, <<"Delivered", "Refunded">>}

StatusOf(st, o) == st["Order"].orders[o].status.kind

\* The payment of order o was confirmed
WasConfirmed(o) ==
    \E p \in Pos : /\ hist[p].op = "evolve" /\ hist[p].unit = "Order"
                   /\ hist[p].val.type = "PaymentConfirmed"
                   /\ hist[p].val.payload.orderId = o

\* C36: an order stays in the state, its status changes only along the
\* lifecycle, an order that is Shipped was Confirmed before, and an order
\* that is Cancelled or Refunded is never changed again.
OrderLifecycle ==
    /\ [](\A o \in DOMAIN state["Order"].orders :
             StatusOf(state, o) = "Shipped" => WasConfirmed(o))
    /\ [][\A o \in DOMAIN state["Order"].orders :
             /\ o \in DOMAIN state'["Order"].orders
             /\ \/ StatusOf(state', o) = StatusOf(state, o)
                \/ <<StatusOf(state, o), StatusOf(state', o)>> \in Lifecycle
             /\ StatusOf(state, o) \in {"Cancelled", "Refunded"} =>
                    state'["Order"].orders[o] = state["Order"].orders[o]]_vars

\* An order went from Pending to Delivered and was refunded, and a command
\* on the refunded order was rejected.
RefundedAfterDelivery ==
    \E o \in DOMAIN state["Order"].orders :
        /\ StatusOf(state, o) = "Refunded"
        /\ \E p \in Pos : /\ hist[p].op = "evolve" /\ hist[p].val.type = "OrderDelivered"
        /\ RejectedOrders # {}
        /\ Quiescent

-----------------------------------------------------------------------------
(* The life of a todo *)

Todos(st) == st["Todo"].todos

\* C37: a todo that is in the state stays in it; once its status is
\* Archived the todo is never changed again, and CompleteTodo,
\* ReactivateTodo, ArchiveTodo and UpdateTodoText on it get one
\* TodoCommandFailed event each; AddTodo with the id of a todo in the state
\* gets one TodoCommandFailed event and leaves the todo as it is.
TodoLifecycle ==
    [][/\ \A id \in DOMAIN Todos(state) :
             /\ id \in DOMAIN Todos(state')
             /\ Todos(state)[id].status.kind = "Archived" =>
                    Todos(state')[id] = Todos(state)[id]
       /\ \A n \in NewDecisions("Todo") :
             /\ (/\ n.cmd.payload.id \in DOMAIN Todos(state)
                 /\ Todos(state)[n.cmd.payload.id].status.kind = "Archived"
                 /\ n.cmd.type \in {"CompleteTodo", "ReactivateTodo", "ArchiveTodo",
                                    "UpdateTodoText"})
                => Rejected(n.events)
             /\ (n.cmd.type = "AddTodo" /\ n.cmd.payload.id \in DOMAIN Todos(state))
                => /\ Rejected(n.events)
                   /\ Todos(state')[n.cmd.payload.id] = Todos(state)[n.cmd.payload.id]]_vars

\* A todo was added, its text was edited, it was archived, and an
\* UpdateTodoText dispatched after that was rejected.
EditedAfterArchive ==
    /\ "t1" \in DOMAIN Todos(state)
    /\ Todos(state)["t1"].status.kind = "Archived"
    /\ Todos(state)["t1"].text = 7
    /\ \E d \in Dids : /\ CmdOf(d).type = "UpdateTodoText"
                       /\ Has("decide", d)
                       /\ Decided(d) = Failed("TodoCommandFailed", CmdOf(d),
                                              "Cannot edit archived todo")

-----------------------------------------------------------------------------
(* The catalog: every Catalog command on one product, and orders of that   *)
(* product, whose OrderCreated makes the inventory Reaction Unit dispatch  *)
(* AdjustStock.                                                            *)

MaxStockCmds == 4

NewPrices == {1999}

StockLevels == {0, 2}

Adjustments == {-1, 1}

StockCommands ==
    CatalogCommands
    \cup {Cmd("UpdateProductPrice", [id |-> pr, price |-> n]) :
             pr \in ProductIds, n \in NewPrices}
    \cup {Cmd("UpdateProductStock", [id |-> pr, stock |-> n]) :
             pr \in ProductIds, n \in StockLevels}
    \cup {Cmd("AdjustStock", [id |-> pr, adjustment |-> a, reason |-> "count"]) :
             pr \in ProductIds, a \in Adjustments}
    \cup {Cmd("DiscontinueProduct", [id |-> pr]) : pr \in ProductIds}
    \cup {Cmd("ReactivateProduct", [id |-> pr]) : pr \in ProductIds}

DispatchStock ==
    /\ users < MaxStockCmds
    /\ microQ = <<>>
    /\ \E cmd \in StockCommands : UserDispatch("Catalog", cmd, FALSE)

DispatchCreateOrder ==
    /\ users < MaxStockCmds
    /\ microQ = <<>>
    /\ \E cmd \in {c \in OrderCommands : c.type = "CreateOrder"} :
           UserDispatch("Order", cmd, FALSE)

NextStock == DispatchStock \/ DispatchCreateOrder \/ RunMicrotask

SpecStock == InitEcommerce /\ [][NextStock]_vars

Products(st) == st["Catalog"].products

\* C38: a product whose status is Discontinued keeps that status in every
\* step, except a step in which the Catalog decides a ReactivateProduct
\* for it, whether the commands come from the caller or from the inventory
\* Reaction Unit.
DiscontinuedStays ==
    [][\A pr \in DOMAIN Products(state) :
          Products(state)[pr].status.kind = "Discontinued" =>
              \/ Products(state')[pr].status.kind = "Discontinued"
              \/ \E n \in NewDecisions("Catalog") :
                     n.cmd.type = "ReactivateProduct" /\ n.cmd.payload.id = pr]_vars

-----------------------------------------------------------------------------
(* Auto-save: the generic system with persistence enabled for unit A and   *)
(* left enabled (the returned cleanup is not called).  The interval and    *)
(* the save timeouts are macrotasks: they run when the microtask queue is  *)
(* empty, the timeout at any time after it was set.                        *)

MaxAutoCmds == 4

AutoShapes == {Shape(<<"E1">>, {}, "sync", FALSE), Shape(<<"Reset">>, {}, "sync", FALSE)}

DispatchAuto ==
    /\ users < MaxAutoCmds
    /\ microQ = <<>>
    /\ \E sh \in AutoShapes : UserDispatch("A", GenCmd(sh, users + 1), FALSE)

\* Caller code: manager.enableForDecider(A), with autoSave true
EnableCall ==
    /\ ~manager.enabled
    /\ microQ = <<>>
    /\ \E v \in {loadDeciderState(World, "A")} :
          /\ microQ' = v.microQ
          /\ manager' = [manager EXCEPT !.enabled = TRUE,
                                        !.previousState = state["A"],
                                        !.since = Len(hist)]
    /\ UNCHANGED <<state, traceLog, listeners, waiting, promise, awaited, clock,
                   hist, recv, seen, users, deciders, cleanups, readState, stored>>

\* The interval of subscribeToStateChanges fires.
Poll ==
    /\ manager.enabled
    /\ microQ = <<>>
    /\ manager' = poll(manager, state["A"])
    /\ UNCHANGED <<state, traceLog, listeners, microQ, waiting, promise, awaited,
                   clock, hist, recv, seen, users, deciders, cleanups, readState,
                   stored>>

\* A save timeout fires: saveDeciderState(decider)
SaveTimeout ==
    /\ microQ = <<>>
    /\ \E timeout \in manager.pending :
          /\ manager' = [manager EXCEPT !.pending = @ \ {timeout}]
          /\ stored' = saveDeciderState(World, "A").stored
    /\ UNCHANGED <<state, traceLog, listeners, microQ, waiting, promise, awaited,
                   clock, hist, recv, seen, users, deciders, cleanups, readState>>

NextAutoSave == DispatchAuto \/ EnableCall \/ Poll \/ SaveTimeout \/ RunMicrotask

SpecAutoSave == Init /\ [][NextAutoSave]_vars

\* The event loop runs every ready microtask, fires the interval again and
\* again, and fires every timeout that is not cleared.
FairAutoSave ==
    SpecAutoSave /\ WF_vars(RunMicrotask) /\ WF_vars(Poll) /\ WF_vars(SaveTimeout)

\* The state of A was replaced by a new array after persistence was enabled
ChangedSinceEnabled ==
    /\ manager.enabled
    /\ \E p \in Pos : /\ p > manager.since
                      /\ hist[p].op = "evolve" /\ hist[p].unit = "A"
                      /\ hist[p].val.type = "E1"

AdapterHoldsState == stored["A"] = JSONstringify(state["A"])

\* C39: with persistence enabled for A and left enabled, at most one save
\* timeout is pending at any time, and once the state of A has changed and
\* changes no more (the caller makes finitely many calls), the adapter
\* eventually holds, under the key A, the state A has, and keeps holding it.
AutoSaveSettles ==
    /\ [](Cardinality(manager.pending) <= 1)
    /\ <>[](ChangedSinceEnabled => AdapterHoldsState)

\* At most one save timeout is pending at any time.
OneSaveTimeout == Cardinality(manager.pending) <= 1

\* A timeout was replaced while it was pending.
TimeoutReplaced == manager.timers > 1 /\ manager.saveTimeouts = manager.timers /\ manager.saveTimeouts \in manager.pending

====
